---- MODULE Spec2Model ----
(***************************************************************************)
(* The clipboard history engine of all-in-one-clipboard: ClipboardManager  *)
(* (src/extension/features/GIF/tabGIF.js, lines 3196-4050) together with   *)
(* the part of AllInOneClipboardExtension.enable() that loads it and then  *)
(* builds the UI (src/extension/extension.js, lines 563-623).              *)
(*                                                                         *)
(* Everything runs on one GLib main loop.  Every action below is one       *)
(* callback of that loop, run to completion: a signal handler, the         *)
(* continuation of an await, or a call made by the UI.                     *)
(***************************************************************************)
EXTENDS Integers, Sequences, FiniteSets, TLC

(***************************************************************************)
(* Bounds of the model.                                                    *)
(***************************************************************************)
\* Number of items the engine may create (GLib.uuid_string_random() calls).
MaxIds == 3
\* Largest value of the clipboard-history-max-items setting (the real range
\* 10..200 of prefs.js:220 scaled down to 1..MaxMaxHistory).
MaxMaxHistory == 2

(***************************************************************************)
(* Program constants.                                                      *)
(***************************************************************************)
TEXT_PREVIEW_MAX_LENGTH == 150

(***************************************************************************)
(* Clipboard contents.  A clipboard value offers a text (or none) and an   *)
(* image (or none).  Texts and image data are abstract values; TextLength  *)
(* gives text.length and Trimmed the result of text.trim().                *)
(***************************************************************************)
NoText == "no-text"
NoImage == "no-image"
Texts == {"hello", "blank", "long500"}
Images == {"png1"}

TextLength(text) ==
    CASE text = "hello" -> 5
      [] text = "blank" -> 2
      [] text = "long500" -> 500

\* text.trim() !== ''  (tabGIF.js:3369); "blank" is a text of two spaces.
TrimmedIsEmpty(text) == text = "blank"

ClipValues ==
    { [text |-> "hello", image |-> NoImage],
      [text |-> "long500", image |-> NoImage],
      [text |-> "blank", image |-> "png1"],
      [text |-> NoText, image |-> NoImage] }

\* new TextEncoder().encode(text): the UTF-8 bytes of a text.
Utf8(text) ==
    CASE text = "hello" -> "bytes:hello"
      [] text = "blank" -> "bytes:blank"
      [] text = "long500" -> "bytes:long500"

\* The bytes of an image (bytes.get_data()).
ImageData(image) == CASE image = "png1" -> "bytes:png1"

\* GLib.compute_checksum_for_data(SHA256, data): a function of the bytes
\* alone, injective on the byte strings of the model.
SHA256(data) ==
    CASE data = "bytes:hello" -> "sha:hello"
      [] data = "bytes:blank" -> "sha:blank"
      [] data = "bytes:long500" -> "sha:long500"
      [] data = "bytes:png1" -> "sha:png1"

(***************************************************************************)
(* Items: the records kept in _history and _pinned.  image_filename is     *)
(* `${Date.now()}_${id.substring(0, 8)}.${extension}`, one name per id; it *)
(* is modelled by the id (0 for a text item, which has no such field).     *)
(***************************************************************************)
Ids == 1..MaxIds
NoHash == "none"
NullContent == "null"

\* text.replace(/[ \t]+/g, ' ').trim().substring(0, TEXT_PREVIEW_MAX_LENGTH):
\* the first 150 characters of the text with its blanks collapsed.
CollapsedPrefix(text) ==
    CASE text = "hello" -> "hello"
      [] text = "blank" -> ""
      [] text = "long500" -> "long500[0,150)"

\* Mutant of Preview: the text itself is stored, whatever its length.
PreviewIsText(text) == text

\* preview: has_full_content ? preview : text
Preview(text) ==
    IF TextLength(text) > TEXT_PREVIEW_MAX_LENGTH THEN CollapsedPrefix(text)
    ELSE text

\* A text item has no image_filename (0 here); an image item has neither
\* preview (NoText here) nor has_full_content (FALSE here, as the code reads
\* the undefined field).  The timestamp is not modelled.
TextItem(id, text) ==
    [id |-> id, type |-> "text", preview |-> Preview(text),
     has_full_content |-> TextLength(text) > TEXT_PREVIEW_MAX_LENGTH,
     image_filename |-> 0, hash |-> SHA256(Utf8(text))]

ImageItem(id, hash) ==
    [id |-> id, type |-> "image", preview |-> NoText,
     has_full_content |-> FALSE,
     image_filename |-> id, hash |-> hash]

(***************************************************************************)
(* JSON.  A JSON text is modelled by the array it denotes: a sequence of   *)
(* objects, each a sequence of members (key, value) in the order of the    *)
(* object's own properties.  The text is stored as the UTF-8 bytes of a    *)
(* well-formed string, which TextDecoder gives back unchanged.             *)
(***************************************************************************)
Member(key, value) == [key |-> key, value |-> value]

\* Mutant of JsonObject: a serializer that leaves out has_full_content.
JsonObjectWithoutFlag(item) ==
    IF item.type = "text"
    THEN << Member("id", item.id), Member("type", item.type),
            Member("preview", item.preview), Member("hash", item.hash) >>
    ELSE << Member("id", item.id), Member("type", item.type),
            Member("image_filename", item.image_filename),
            Member("hash", item.hash) >>

\* JSON.stringify of one item: the properties the object literal of
\* _addTextItem / _addImageItem gives it.
JsonObject(item) ==
    IF item.type = "text"
    THEN << Member("id", item.id), Member("type", item.type),
            Member("preview", item.preview),
            Member("has_full_content", item.has_full_content),
            Member("hash", item.hash) >>
    ELSE << Member("id", item.id), Member("type", item.type),
            Member("image_filename", item.image_filename),
            Member("hash", item.hash) >>

\* JSON.stringify(list, null, 2)
JsonStringify(list) == [i \in 1..Len(list) |-> JsonObject(list[i])]

\* object[key] of a parsed object; `absent` stands for undefined.
Property(object, key, absent) ==
    IF \E i \in 1..Len(object) : object[i].key = key
    THEN object[CHOOSE i \in 1..Len(object) : object[i].key = key].value
    ELSE absent

\* JSON.parse of an array of item objects.
JsonParse(json) ==
    [i \in 1..Len(json) |->
        [id |-> Property(json[i], "id", 0),
         type |-> Property(json[i], "type", "undefined"),
         preview |-> Property(json[i], "preview", NoText),
         has_full_content |-> Property(json[i], "has_full_content", FALSE),
         image_filename |-> Property(json[i], "image_filename", 0),
         hash |-> Property(json[i], "hash", NoHash)]]

(***************************************************************************)
(* Backing files: missing, malformed JSON, or a JSON array of records.     *)
(***************************************************************************)
Missing == [kind |-> "missing", items |-> <<>>]
Malformed == [kind |-> "malformed", items |-> <<>>]

\* The file a completed _saveFile of JSON.stringify(list) leaves.
Saved(list) == [kind |-> "json", items |-> JsonStringify(list)]

\* Such a file when load_contents_async ends with an error other than
\* NOT_FOUND (no permission, a failing disk).
Unreadable(list) == [kind |-> "unreadable", items |-> JsonStringify(list)]

\* A file of length 0: load_contents yields an empty Uint8Array, an object
\* and so not falsy, and JSON.parse('') throws.
Empty == [kind |-> "empty", items |-> <<>>]

\* A file with JSON that is not an array: null, an object, a number.
\* JSON.parse returns that value, and loadData assigns it to the list.
NotArray == [kind |-> "notArray", items |-> <<>>]

VARIABLES
    history,            \* this._history
    pinned,             \* this._pinned
    lastContent,        \* this._lastContent
    maxHistory,         \* this._maxHistory
    initialLoadSuccess, \* this._initialLoadSuccess
    nextId,             \* the next fresh uuid
    unpinOnPaste,       \* settings: 'unpin-on-paste'
    updateRecency,      \* settings: 'update-recency-on-copy'
    historyFile,        \* history_clipboard.json
    pinnedFile,         \* pinned_clipboard.json
    phase,              \* position of enable(): "loading" or "ready"
    fx,                 \* what the last callback did (writes started, signals)
    imagesDir,          \* the files of this._imagesDir
    textsDir,           \* the files of this._textsDir
    returned,           \* what the last getContent(id) resolved to
    held,               \* the array a caller got from getHistoryItems() or
                        \* getPinnedItems(), with what it held at the call
    recents,            \* RecentItemsManager: this._recents
    maxItems,           \* RecentItemsManager: this._maxItems
    isLoaded,           \* RecentItemsManager: this._isLoaded
    recentsFile,        \* RecentItemsManager: the cache file
    rfx,                \* RecentItemsManager: what the last callback did
    clipboard,          \* what the owner of the system clipboard offers
    isPaused,           \* this._isPaused
    debouncing,         \* this._debouncing
    timerPending,       \* this._processClipboardTimeoutId # 0
    runs,               \* the _processClipboardContent() calls in progress
    copying,            \* _onItemCopyToClipboard calls awaiting the content
    signals,            \* the owner-changed signals emitted so far
    wfx,                \* what the last owner-changed callback did
    destroyed,          \* destroy() was called
    sources,            \* the GLib timeout sources added and neither removed
                        \* nor fired
    io                  \* the asynchronous file operations started and not
                        \* completed: in flight, or ended with an error

\* The blob store, followed in SpecStore.
storeVars == <<imagesDir, textsDir, returned>>

\* The caller of the getters, followed in SpecSnapshots.
viewVars == <<held>>

\* The RecentItemsManager, followed in SpecRecents.
recentsVars == <<recents, maxItems, isLoaded, recentsFile, rfx>>

\* The clipboard watcher, followed in SpecWatcher.
watcherVars == <<clipboard, isPaused, debouncing, timerPending, runs, copying,
                 signals, wfx, destroyed, sources>>

\* The asynchronous file operations, followed in SpecIO.
ioVars == <<io>>

\* What the callbacks of the engine core leave alone.
otherVars == <<storeVars, viewVars, recentsVars, watcherVars, ioVars>>

vars == <<history, pinned, lastContent, maxHistory, initialLoadSuccess, nextId,
          unpinOnPaste, updateRecency, historyFile, pinnedFile, phase, fx,
          otherVars>>

\* What the calls of the UI leave alone.
engineVars == <<lastContent, maxHistory, initialLoadSuccess, unpinOnPaste,
                updateRecency, historyFile, pinnedFile, phase>>

(***************************************************************************)
(* Array helpers (JavaScript findIndex / splice / unshift / pop).          *)
(***************************************************************************)
\* list.findIndex(item => item.hash === hash), 1-based; 0 stands for -1.
FindIndexByHash(list, hash) ==
    IF \E i \in 1..Len(list) : list[i].hash = hash
    THEN CHOOSE i \in 1..Len(list) :
            /\ list[i].hash = hash
            /\ \A j \in 1..(i - 1) : list[j].hash # hash
    ELSE 0

\* list.findIndex(item => item.id === id), 1-based; 0 stands for -1.
FindIndexById(list, id) ==
    IF \E i \in 1..Len(list) : list[i].id = id
    THEN CHOOSE i \in 1..Len(list) :
            /\ list[i].id = id
            /\ \A j \in 1..(i - 1) : list[j].id # id
    ELSE 0

\* Mutant of Splice: the element is read but not removed.
SpliceKeepsElement(list, index) == list

\* list.splice(index, 1): the list without its index-th element.
Splice(list, index) ==
    SubSeq(list, 1, index - 1) \o SubSeq(list, index + 1, Len(list))

\* list.unshift(item)
Unshift(list, item) == <<item>> \o list

\* Mutant of MoveToFront: the duplicate is found and left where it is.
MoveToFrontKeepsOrder(list, index) == list

\* const [item] = list.splice(index, 1); list.unshift(item)
MoveToFront(list, index) == Unshift(Splice(list, index), list[index])

\* The blob files of an item, as _pruneHistory and deleteItem address them.
BlobsOf(item) ==
    (IF item.type = "image" THEN {<<"images", item.image_filename>>} ELSE {})
    \cup
    (IF item.type = "text" /\ item.has_full_content
     THEN {<<"texts", item.id>>} ELSE {})

RECURSIVE BlobsOfAll(_)
BlobsOfAll(list) ==
    IF list = <<>> THEN {} ELSE BlobsOf(Head(list)) \cup BlobsOfAll(Tail(list))

(***************************************************************************)
(* Persistence and pruning.                                                *)
(***************************************************************************)
\* Mutant of SaveHistory: the guard on _initialLoadSuccess is missing.
SaveHistoryUnguarded == TRUE

\* _saveHistory(): a write of history_clipboard.json is started unless the
\* initial load has not succeeded.
SaveHistory == initialLoadSuccess

\* _savePinned(): likewise for pinned_clipboard.json.
SavePinned == initialLoadSuccess

\* _pruneHistory() on list h with limit max: the list kept and the blob
\* deletions requested (_deleteImageFile / _deleteTextFile) for the popped
\* items.  Nothing is pruned unless the initial load has succeeded.
PruneHistory(h, max) ==
    IF ~initialLoadSuccess \/ Len(h) <= max
    THEN [history |-> h, deleted |-> {}]
    ELSE [history |-> SubSeq(h, 1, max),
          deleted |-> BlobsOfAll(SubSeq(h, max + 1, Len(h)))]

\* The effects of one callback, as the outside sees them.
Effects(op, id, hash, saveH, saveP, emitH, emitP, wrote, deleted) ==
    [op |-> op, id |-> id, hash |-> hash,
     saveHistory |-> saveH, savePinned |-> saveP,
     emitHistory |-> emitH, emitPinned |-> emitP,
     wrote |-> wrote, deleted |-> deleted]

NoEffects(op, id, hash) ==
    Effects(op, id, hash, FALSE, FALSE, FALSE, FALSE, {}, {})

(***************************************************************************)
(* Ingestion: _addTextItem and _addImageItem.  Each yields the new lists,  *)
(* the next fresh id and the effects.                                      *)
(***************************************************************************)
Outcome(h, p, nid, effects) ==
    [history |-> h, pinned |-> p, nextId |-> nid, fx |-> effects]

\* Mutant of GetUnpinOnPaste: the setting is not consulted.
UnpinOnPasteIgnored == TRUE

\* this._settings.get_boolean('unpin-on-paste')
GetUnpinOnPaste == unpinOnPaste

\* Mutant of AddItem: the duplicate check against Pinned is missing.
AddItemHistoryOnly(op, hash, fresh) ==
    LET historyIndex == FindIndexByHash(history, hash)
    IN  IF historyIndex > 0
        THEN Outcome(MoveToFront(history, historyIndex), pinned, nextId,
                     Effects(op, 0, hash, SaveHistory, FALSE, TRUE, FALSE, {}, {}))
        ELSE fresh

\* The duplicate checks shared by both (tabGIF.js:3438-3461, 3506-3529);
\* `fresh` is the outcome when the hash is in neither list.
AddItem(op, hash, fresh) ==
    LET historyIndex == FindIndexByHash(history, hash)
        pinnedIndex == FindIndexByHash(pinned, hash)
    IN  IF historyIndex > 0
        THEN Outcome(MoveToFront(history, historyIndex), pinned, nextId,
                     Effects(op, 0, hash, SaveHistory, FALSE, TRUE, FALSE, {}, {}))
        ELSE IF pinnedIndex > 0
        THEN IF GetUnpinOnPaste
             THEN Outcome(Unshift(history, pinned[pinnedIndex]),
                          Splice(pinned, pinnedIndex), nextId,
                          Effects(op, 0, hash, SaveHistory, SavePinned,
                                  TRUE, TRUE, {}, {}))
             ELSE Outcome(history, pinned, nextId, NoEffects(op, 0, hash))
        ELSE fresh

AddTextItem(text) ==
    LET hash == SHA256(Utf8(text))
        item == TextItem(nextId, text)
        pruned == PruneHistory(Unshift(history, item), maxHistory)
    IN  AddItem("addText", hash,
                Outcome(pruned.history, pinned, nextId + 1,
                        Effects("addText", nextId, hash, SaveHistory, FALSE,
                                TRUE, FALSE,
                                IF item.has_full_content
                                THEN {<<"texts", nextId>>} ELSE {},
                                pruned.deleted)))

AddImageItem(hash) ==
    LET item == ImageItem(nextId, hash)
        pruned == PruneHistory(Unshift(history, item), maxHistory)
    IN  AddItem("addImage", hash,
                Outcome(pruned.history, pinned, nextId + 1,
                        Effects("addImage", nextId, hash, SaveHistory, FALSE,
                                TRUE, FALSE, {<<"images", nextId>>},
                                pruned.deleted)))

\* Installs an outcome; creating an item needs a fresh id within the bound.
Install(out) ==
    /\ out.nextId <= MaxIds + 1
    /\ history' = out.history
    /\ pinned' = out.pinned
    /\ nextId' = out.nextId
    /\ fx' = out.fx

\* A callback without effect on the lists, the files or the subscribers.
Quiet == NoEffects("none", 0, NoHash)

(***************************************************************************)
(* The engine core (Spec) follows the lists, the settings and the effects  *)
(* of each callback.  The blob directories, the caller of the getters and  *)
(* the RecentItemsManager have specifications of their own below; here     *)
(* they stay as follows.                                                   *)
(***************************************************************************)
NoReturn == [id |-> 0, read |-> "none", value |-> NullContent]
NoReference == [array |-> "none", atCall |-> <<>>]
RecentsQuiet == [op |-> "none", existed |-> FALSE, save |-> FALSE, emit |-> FALSE]

StoreIdle ==
    /\ imagesDir = {}
    /\ textsDir = {}
    /\ returned = NoReturn

ViewIdle == held = NoReference

RecentsIdle ==
    /\ recents = <<>>
    /\ maxItems = 0
    /\ isLoaded = FALSE
    /\ recentsFile = Missing
    /\ rfx = RecentsQuiet

NoSignal == [op |-> "none", cause |-> "none", outcome |-> "none"]

IoIdle == io = {}

WatcherIdle ==
    /\ clipboard = [text |-> NoText, image |-> NoImage]
    /\ isPaused = FALSE
    /\ debouncing = 0
    /\ timerPending = FALSE
    /\ runs = <<>>
    /\ copying = {}
    /\ signals = 0
    /\ destroyed = FALSE
    /\ sources = 0
    /\ wfx = NoSignal

(***************************************************************************)
(* Init: the state after `new ClipboardManager(uuid, settings)` in         *)
(* enable(), with loadAndPrepare() started and not yet resolved.           *)
(***************************************************************************)
MaxHistoryValues == 1..MaxMaxHistory

Init ==
    /\ history = <<>>
    /\ pinned = <<>>
    /\ lastContent = NullContent
    /\ maxHistory \in MaxHistoryValues
    /\ initialLoadSuccess = FALSE
    /\ nextId = 1
    /\ unpinOnPaste \in BOOLEAN
    /\ updateRecency \in BOOLEAN
    /\ historyFile \in {Missing, Malformed}
    /\ pinnedFile = Missing
    /\ phase = "loading"
    /\ fx = Quiet
    /\ StoreIdle
    /\ ViewIdle
    /\ RecentsIdle
    /\ WatcherIdle
    /\ IoIdle

(***************************************************************************)
(* Clipboard processing.  _onClipboardChanged (not paused, debounce        *)
(* counter 0) arms a 50 ms timeout that starts _processClipboardContent;   *)
(* the run awaits get_text and, without a text, get_content per MIME type. *)
(* The action is the continuation of the probe that yields content: it     *)
(* compares with _lastContent and calls _addTextItem or _addImageItem.     *)
(* What the probes read is the clipboard of that moment, which belongs to  *)
(* the other applications: an input c.                                     *)
(***************************************************************************)
\* _processClipboardContent from the content its probes found to its return.
CompareAndAdd(c) ==
    IF c.text # NoText /\ ~TrimmedIsEmpty(c.text)
    THEN IF c.text # lastContent
         THEN /\ lastContent' = c.text
              /\ Install(AddTextItem(c.text))
         ELSE /\ fx' = NoEffects("sameContent", 0, SHA256(Utf8(c.text)))
              /\ UNCHANGED <<history, pinned, nextId, lastContent>>
    ELSE IF c.image # NoImage
    THEN LET hash == SHA256(ImageData(c.image)) IN
         IF hash # lastContent
         THEN /\ lastContent' = hash
              /\ Install(AddImageItem(hash))
         ELSE /\ fx' = NoEffects("sameContent", 0, hash)
              /\ UNCHANGED <<history, pinned, nextId, lastContent>>
    ELSE /\ fx' = Quiet
         /\ UNCHANGED <<history, pinned, nextId, lastContent>>

ProcessClipboardContent(c) ==
    /\ CompareAndAdd(c)
    /\ UNCHANGED <<maxHistory, initialLoadSuccess, unpinOnPaste, updateRecency,
                   historyFile, pinnedFile, phase, otherVars>>

(***************************************************************************)
(* Calls made by the UI.  The indicator and its tabs are built by enable() *)
(* after `await loadAndPrepare()` (extension.js:578-609), so the UI calls  *)
(* nothing while the load is in flight.                                    *)
(***************************************************************************)
\* pinItem(id)
PinItemCall(id) ==
    /\ phase = "ready"
    /\ LET index == FindIndexById(history, id) IN
       IF index = 0
       THEN /\ fx' = Quiet
            /\ UNCHANGED <<history, pinned>>
       ELSE /\ history' = Splice(history, index)
            /\ pinned' = Unshift(pinned, history[index])
            /\ fx' = Effects("pinItem", id, NoHash, SaveHistory, SavePinned,
                             TRUE, TRUE, {}, {})
    /\ UNCHANGED <<engineVars, nextId>>

PinItem(id) == PinItemCall(id) /\ UNCHANGED otherVars

\* unpinItem(id)
UnpinItemCall(id) ==
    /\ phase = "ready"
    /\ LET index == FindIndexById(pinned, id) IN
       IF index = 0
       THEN /\ fx' = Quiet
            /\ UNCHANGED <<history, pinned>>
       ELSE LET pruned == PruneHistory(Unshift(history, pinned[index]), maxHistory)
            IN  /\ pinned' = Splice(pinned, index)
                /\ history' = pruned.history
                /\ fx' = Effects("unpinItem", id, NoHash, SaveHistory, SavePinned,
                                 TRUE, TRUE, {}, pruned.deleted)
    /\ UNCHANGED <<engineVars, nextId>>

UnpinItem(id) == UnpinItemCall(id) /\ UNCHANGED otherVars

\* promoteItemToTop(id)
PromoteItemToTopCall(id) ==
    /\ phase = "ready"
    /\ LET pinnedIndex == FindIndexById(pinned, id)
           historyIndex == FindIndexById(history, id)
       IN  IF pinnedIndex > 0
           THEN IF GetUnpinOnPaste
                THEN LET pruned == PruneHistory(Unshift(history, pinned[pinnedIndex]),
                                                maxHistory)
                     IN  /\ pinned' = Splice(pinned, pinnedIndex)
                         /\ history' = pruned.history
                         /\ fx' = Effects("promoteItemToTop", id, NoHash,
                                          SaveHistory, SavePinned, TRUE, TRUE,
                                          {}, pruned.deleted)
                ELSE /\ fx' = Quiet
                     /\ UNCHANGED <<history, pinned>>
           ELSE IF historyIndex > 0 /\ updateRecency /\ historyIndex > 1
                THEN /\ history' = MoveToFront(history, historyIndex)
                     /\ fx' = Effects("promoteItemToTop", id, NoHash,
                                      SaveHistory, FALSE, TRUE, FALSE, {}, {})
                     /\ UNCHANGED pinned
                ELSE /\ fx' = Quiet
                     /\ UNCHANGED <<history, pinned>>
    /\ UNCHANGED <<engineVars, nextId>>

PromoteItemToTop(id) == PromoteItemToTopCall(id) /\ UNCHANGED otherVars

\* Mutant of DeleteLogic: the test `index > -1` is missing, and
\* list.splice(-1, 1) removes the last element.
DeleteLogicUnchecked(list, id) ==
    LET index == IF FindIndexById(list, id) > 0 THEN FindIndexById(list, id)
                 ELSE Len(list)
    IN  IF index > 0
        THEN [list |-> Splice(list, index), deleted |-> BlobsOf(list[index]),
              wasDeleted |-> TRUE]
        ELSE [list |-> list, deleted |-> {}, wasDeleted |-> FALSE]

\* deleteLogic(list) of deleteItem: the list left and the deletions requested.
DeleteLogic(list, id) ==
    LET index == FindIndexById(list, id) IN
    IF index > 0
    THEN [list |-> Splice(list, index), deleted |-> BlobsOf(list[index]),
          wasDeleted |-> TRUE]
    ELSE [list |-> list, deleted |-> {}, wasDeleted |-> FALSE]

\* deleteItem(id)
DeleteItemCall(id) ==
    /\ phase = "ready"
    /\ LET h == DeleteLogic(history, id)
           p == DeleteLogic(pinned, id)
           wasDeleted == h.wasDeleted \/ p.wasDeleted
       IN  /\ history' = h.list
           /\ pinned' = p.list
           /\ fx' = IF wasDeleted
                    THEN Effects("deleteItem", id, NoHash, SaveHistory, SavePinned,
                                 TRUE, TRUE, {}, h.deleted \cup p.deleted)
                    ELSE Quiet
    /\ UNCHANGED <<engineVars, nextId>>

DeleteItem(id) == DeleteItemCall(id) /\ UNCHANGED otherVars

(***************************************************************************)
(* Settings.                                                               *)
(***************************************************************************)
\* The handler of changed::clipboard-history-max-items.
MaxHistoryChangedCall(m) ==
    /\ maxHistory' = m
    /\ LET pruned == PruneHistory(history, m) IN
       /\ history' = pruned.history
       /\ fx' = Effects("maxHistoryChanged", 0, NoHash, FALSE, FALSE, FALSE,
                        FALSE, {}, pruned.deleted)
    /\ UNCHANGED <<pinned, lastContent, initialLoadSuccess, nextId, unpinOnPaste,
                   updateRecency, historyFile, pinnedFile, phase>>

MaxHistoryChanged(m) == MaxHistoryChangedCall(m) /\ UNCHANGED otherVars

\* The preferences window writes 'unpin-on-paste' / 'update-recency-on-copy';
\* the engine reads them with get_boolean at each use.
BooleanSettingsChanged(u, r) ==
    /\ unpinOnPaste' = u
    /\ updateRecency' = r
    /\ fx' = Quiet
    /\ UNCHANGED <<history, pinned, lastContent, maxHistory, initialLoadSuccess,
                   nextId, historyFile, pinnedFile, phase, otherVars>>

(***************************************************************************)
(* The initial load.                                                       *)
(***************************************************************************)
\* JSON.parse throws on malformed contents, and on no contents at all.
ParseThrows(file) == file.kind \in {"malformed", "empty"}

\* loadFile(file) yields null for a missing file and for a file whose read
\* was rejected, which loadData reads as [].
ParsedItems(file) ==
    IF file.kind \in {"missing", "unreadable"} THEN <<>>
    ELSE JsonParse(file.items)

\* loadData() on two files: the value it returns and the lists it assigns.
\* A throw of either JSON.parse is caught around both and empties both.
LoadDataOf(hFile, pFile) ==
    LET success == ~ParseThrows(hFile) /\ ~ParseThrows(pFile)
    IN  [success |-> success,
         history |-> IF success THEN ParsedItems(hFile) ELSE <<>>,
         pinned |-> IF success THEN ParsedItems(pFile) ELSE <<>>]

\* loadData(): the value it returns.
LoadData == LoadDataOf(historyFile, pinnedFile).success

\* loadAndPrepare() resolves: loadData has replaced both lists by what the
\* files hold (or by [] when JSON.parse threw) and emitted both signals, and
\* enable() goes on to build the UI (extension.js:578-609).  The garbage
\* collection enable() runs in between touches the blob directories only.
LoadAndPrepare ==
    /\ phase = "loading"
    /\ phase' = "ready"
    /\ initialLoadSuccess' = LoadData
    /\ history' = LoadDataOf(historyFile, pinnedFile).history
    /\ pinned' = LoadDataOf(historyFile, pinnedFile).pinned
    /\ fx' = Effects("load", 0, NoHash, FALSE, FALSE, TRUE, TRUE, {}, {})
    /\ UNCHANGED <<lastContent, maxHistory, nextId, unpinOnPaste, updateRecency,
                   historyFile, pinnedFile, otherVars>>

Next ==
    \/ \E c \in ClipValues : ProcessClipboardContent(c)
    \/ \E id \in Ids : PinItem(id)
    \/ \E id \in Ids : UnpinItem(id)
    \/ \E id \in Ids : PromoteItemToTop(id)
    \/ \E id \in Ids : DeleteItem(id)
    \/ \E m \in MaxHistoryValues : MaxHistoryChanged(m)
    \/ \E u, r \in BOOLEAN : BooleanSettingsChanged(u, r)
    \/ LoadAndPrepare

Spec == Init /\ [][Next]_vars

(***************************************************************************)
(* Vocabulary of the properties.                                           *)
(***************************************************************************)
AllItems == history \o pinned

IdsOf(list) == {list[i].id : i \in 1..Len(list)}

HashesOf(list) == {list[i].hash : i \in 1..Len(list)}

\* The last callback was a clipboard change that reached _addTextItem or
\* _addImageItem.
Ingested(effects) == effects.op \in {"addText", "addImage"}

\* The last callback was a processed clipboard change, ingested or dropped
\* because it equals _lastContent.
Processed(effects) == effects.op \in {"addText", "addImage", "sameContent"}

NoWrites(effects) ==
    /\ ~effects.saveHistory
    /\ ~effects.savePinned
    /\ effects.wrote = {}
    /\ effects.deleted = {}

NoSignals(effects) == ~effects.emitHistory /\ ~effects.emitPinned

(***************************************************************************)
(* C1 - Dedup invariant: no two items of History and Pinned together have  *)
(* the same hash, in every state reachable from the empty lists by         *)
(* ingestions, pinItem, unpinItem, promoteItemToTop, deleteItem and        *)
(* max-history changes.                                                    *)
(***************************************************************************)
C1_DedupInvariant ==
    \A i, j \in 1..Len(AllItems) :
        i # j => AllItems[i].hash # AllItems[j].hash

\* A clipboard change has just been recognised as a duplicate of a pinned
\* item, with further items in History.
C1_Witness ==
    /\ Ingested(fx)
    /\ fx.id = 0
    /\ fx.hash \in HashesOf(pinned)
    /\ Len(history) > 0

(***************************************************************************)
(* C2 - Mutual exclusion: every id occurs at most once in History and      *)
(* Pinned taken together: never in both lists, never twice in one.         *)
(***************************************************************************)
C2_MutualExclusion ==
    \A i, j \in 1..Len(AllItems) :
        i # j => AllItems[i].id # AllItems[j].id

\* pinItem has just moved an item and both lists hold items.
C2_Witness ==
    /\ fx.op = "pinItem"
    /\ Len(pinned) > 1
    /\ Len(history) > 0

(***************************************************************************)
(* C3 - Bound invariant: Len(History) <= max_history right after every     *)
(* operation that can grow History: ingestion of new content, ingestion of *)
(* a duplicate of a pinned item with unpin-on-paste enabled, unpinItem,    *)
(* and promoteItemToTop of a pinned item.  Stated for the sessions whose   *)
(* initial load succeeded, where _pruneHistory is active.                  *)
(***************************************************************************)
GrowsHistory(effects) ==
    \/ Ingested(effects) /\ effects.id > 0
    \/ Ingested(effects) /\ effects.emitPinned
    \/ effects.op = "unpinItem"
    \/ effects.op = "promoteItemToTop" /\ effects.emitPinned

C3_BoundInvariant ==
    (initialLoadSuccess /\ GrowsHistory(fx)) => Len(history) <= maxHistory

(***************************************************************************)
(* C4 - Pinned items are never implicitly evicted.  An item leaves Pinned  *)
(* only by unpinItem or deleteItem of its id, by promoteItemToTop of its   *)
(* id or ingestion of its content with unpin-on-paste enabled; and no step *)
(* requests the deletion of a blob of an item that stays pinned (pruning   *)
(* after ingestion, after a max-history change or in unpinItem included).  *)
(***************************************************************************)
LeavesPinnedExplicitly(item, unpin, effects) ==
    \/ effects.op \in {"unpinItem", "deleteItem"} /\ effects.id = item.id
    \/ effects.op = "promoteItemToTop" /\ effects.id = item.id /\ unpin
    \/ Ingested(effects) /\ effects.hash = item.hash /\ unpin

C4_PinnedNeverEvicted ==
    [][/\ \A i \in 1..Len(pinned) :
             \/ pinned[i] \in {pinned'[k] : k \in 1..Len(pinned')}
             \/ LeavesPinnedExplicitly(pinned[i], unpinOnPaste, fx')
       /\ fx'.deleted \cap BlobsOfAll(pinned') = {}
       /\ (Ingested(fx') \/ fx'.op = "maxHistoryChanged")
             => fx'.deleted \cap BlobsOfAll(pinned) = {}]_vars

\* Pruning has just evicted a History item with a blob while an item with
\* a blob is pinned.
C4_Witness ==
    /\ Ingested(fx) \/ fx.op = "maxHistoryChanged"
    /\ fx.deleted # {}
    /\ BlobsOfAll(pinned) # {}

(***************************************************************************)
(* C5 - No write of the History or Pinned JSON file is started while the   *)
(* initial load is in flight, whatever mutations occur meanwhile.          *)
(***************************************************************************)
C5_NoWriteBeforeLoad ==
    phase = "loading" => ~fx.saveHistory /\ ~fx.savePinned

\* A clipboard change has been ingested while the load is in flight.
C5_Witness ==
    /\ phase = "loading"
    /\ Ingested(fx)
    /\ fx.emitHistory
    /\ Len(history) > 0

(***************************************************************************)
(* C6 - Item lifecycle: an item of History or Pinned stays in History or   *)
(* Pinned across every step, except a deleteItem of its id and a pruning   *)
(* that evicts it from History; in particular the completion of the        *)
(* initial load removes no item that was ingested before it.               *)
(***************************************************************************)
\* The step ran _pruneHistory with effect and the item was in History.
EvictedByPruning(item, h, effects, hAfter, maxAfter) ==
    /\ item.id \in IdsOf(h)
    /\ \/ Ingested(effects) /\ effects.id > 0
       \/ effects.op \in {"unpinItem", "promoteItemToTop", "maxHistoryChanged"}
    /\ Len(hAfter) = maxAfter

C6_ItemLifecycle ==
    [][\A i \in 1..Len(AllItems) :
          \/ AllItems[i].id \in IdsOf(history') \cup IdsOf(pinned')
          \/ fx'.op = "deleteItem" /\ fx'.id = AllItems[i].id
          \/ EvictedByPruning(AllItems[i], history, fx', history', maxHistory')]_vars

(***************************************************************************)
(* C7 - Promotion on re-ingestion.  As claimed: whenever a clipboard       *)
(* change whose hash equals that of an item X of History is processed, X   *)
(* ends up first in History, History keeps its length and its items, no    *)
(* item is created and no blob is written.                                 *)
(***************************************************************************)
PromotedTo(hash) ==
    /\ history'[1] = history[FindIndexByHash(history, hash)]
    /\ Len(history') = Len(history)
    /\ IdsOf(history') = IdsOf(history)
    /\ pinned' = pinned
    /\ nextId' = nextId
    /\ fx'.wrote = {}

C7_PromotionAsClaimed ==
    [][(Processed(fx') /\ fx'.hash \in HashesOf(history))
          => PromotedTo(fx'.hash)]_vars

(***************************************************************************)
(* C7, amended - the same for every clipboard change whose content differs *)
(* from the last observed content (_lastContent): those are the changes    *)
(* that reach _addTextItem / _addImageItem.                                *)
(***************************************************************************)
C7_PromotionOnReingestion ==
    [][(Ingested(fx') /\ fx'.hash \in HashesOf(history))
          => PromotedTo(fx'.hash)]_vars

\* A re-ingested content has just been moved to the front of a History of
\* several items, with an item pinned.
C7_Witness ==
    /\ Ingested(fx)
    /\ fx.id = 0
    /\ fx.emitHistory /\ ~fx.emitPinned
    /\ Len(history) > 1
    /\ history[1].hash = fx.hash
    /\ Len(pinned) > 0

(***************************************************************************)
(* C8 - A processed clipboard change whose hash equals that of a pinned    *)
(* item, with unpin-on-paste disabled, leaves History and Pinned as they   *)
(* are, creates no item, starts no write of a blob or of a JSON file,      *)
(* requests no deletion and emits neither signal.                          *)
(***************************************************************************)
C8_PinnedDuplicateIgnored ==
    [][(Processed(fx') /\ fx'.hash \in HashesOf(pinned) /\ ~unpinOnPaste)
          => /\ history' = history
             /\ pinned' = pinned
             /\ nextId' = nextId
             /\ NoWrites(fx')
             /\ NoSignals(fx')]_vars

\* The content of a pinned item has just reached _addTextItem or
\* _addImageItem with unpin-on-paste disabled, History holding other items.
C8_Witness ==
    /\ Ingested(fx)
    /\ ~unpinOnPaste
    /\ \E i \in 1..Len(pinned) : pinned[i].hash = fx.hash
    /\ Len(history) > 1

(***************************************************************************)
(* C9 - pinItem(id) for an id of History removes the item from History and *)
(* puts it at index 0 of Pinned, keeps the order of all other items,       *)
(* evicts nothing from Pinned, starts a save of both lists and emits both  *)
(* signals; for an id not in History it changes and emits nothing.         *)
(***************************************************************************)
Without(list, id) == SelectSeq(list, LAMBDA item : item.id # id)

C9_PinItem ==
    [][\A id \in Ids :
          PinItem(id) =>
             IF id \in IdsOf(history)
             THEN /\ history' = Without(history, id)
                  /\ pinned' = <<history[FindIndexById(history, id)]>> \o pinned
                  /\ fx'.saveHistory /\ fx'.savePinned
                  /\ fx'.emitHistory /\ fx'.emitPinned
             ELSE /\ UNCHANGED <<history, pinned>>
                  /\ NoWrites(fx') /\ NoSignals(fx')]_vars

(***************************************************************************)
(* C10 - unpinItem(id) for an id of Pinned removes the item from Pinned,   *)
(* puts it at index 0 of History, prunes History to max_history from the   *)
(* tail, requests the deletion of the blobs of the evicted items, starts a *)
(* save of both lists and emits both signals; for an id not in Pinned it   *)
(* changes nothing.                                                        *)
(***************************************************************************)
C10_UnpinItem ==
    [][\A id \in Ids :
          UnpinItem(id) =>
             IF id \in IdsOf(pinned)
             THEN LET grown == <<pinned[FindIndexById(pinned, id)]>> \o history
                      kept == IF Len(grown) > maxHistory THEN maxHistory
                              ELSE Len(grown)
                  IN  /\ pinned' = Without(pinned, id)
                      /\ history' = SubSeq(grown, 1, kept)
                      /\ fx'.deleted = BlobsOfAll(SubSeq(grown, kept + 1, Len(grown)))
                      /\ fx'.saveHistory /\ fx'.savePinned
                      /\ fx'.emitHistory /\ fx'.emitPinned
             ELSE /\ UNCHANGED <<history, pinned>>
                  /\ NoWrites(fx') /\ NoSignals(fx')]_vars

(***************************************************************************)
(* C11 - promoteItemToTop(id): for a pinned item it has exactly the effect *)
(* of unpinItem(id) when unpin-on-paste is enabled and no effect when it   *)
(* is disabled; for an item of History it moves the item to index 0,       *)
(* starts a save of History and emits history-changed, only when           *)
(* update-recency-on-copy is enabled and the item is not first already;    *)
(* otherwise it changes nothing, writes nothing and emits nothing.         *)
(***************************************************************************)
\* What unpinItem(id) does for an id of Pinned: the lists it leaves and the
\* effects it has, under the name of the calling operation.
UnpinEffect(op, id) ==
    LET index == FindIndexById(pinned, id)
        pruned == PruneHistory(Unshift(history, pinned[index]), maxHistory)
    IN  [history |-> pruned.history,
         pinned |-> Splice(pinned, index),
         fx |-> Effects(op, id, NoHash, SaveHistory, SavePinned, TRUE, TRUE,
                        {}, pruned.deleted)]

NothingHappens ==
    /\ UNCHANGED <<history, pinned>>
    /\ NoWrites(fx')
    /\ NoSignals(fx')

C11_PromoteItemToTop ==
    [][\A id \in Ids :
          PromoteItemToTop(id) =>
             IF id \in IdsOf(pinned)
             THEN IF unpinOnPaste
                  THEN /\ history' = UnpinEffect("promoteItemToTop", id).history
                       /\ pinned' = UnpinEffect("promoteItemToTop", id).pinned
                       /\ fx' = UnpinEffect("promoteItemToTop", id).fx
                  ELSE NothingHappens
             ELSE IF /\ id \in IdsOf(history)
                     /\ updateRecency
                     /\ history[1].id # id
                  THEN /\ history' = <<history[FindIndexById(history, id)]>>
                                         \o Without(history, id)
                       /\ pinned' = pinned
                       /\ fx'.saveHistory /\ fx'.emitHistory
                       /\ ~fx'.savePinned /\ ~fx'.emitPinned
                       /\ fx'.wrote = {} /\ fx'.deleted = {}
                  ELSE NothingHappens]_vars

(***************************************************************************)
(* C12 - deleteItem(id) removes the item from the list that holds it,      *)
(* requests the deletion of its blob (the image file of an image item,     *)
(* <id>.txt of a text item with has_full_content), starts a save and       *)
(* emits the signals; every other item keeps its place and its blob; for   *)
(* an id in neither list nothing is changed, written or emitted.           *)
(***************************************************************************)
C12_DeleteItem ==
    [][\A id \in Ids :
          DeleteItem(id) =>
             IF id \in IdsOf(history) \cup IdsOf(pinned)
             THEN /\ history' = Without(history, id)
                  /\ pinned' = Without(pinned, id)
                  /\ fx'.deleted =
                        BlobsOfAll(SelectSeq(AllItems, LAMBDA item : item.id = id))
                  /\ fx'.deleted \cap (BlobsOfAll(history') \cup BlobsOfAll(pinned')) = {}
                  /\ fx'.wrote = {}
                  /\ fx'.saveHistory /\ fx'.savePinned
                  /\ fx'.emitHistory /\ fx'.emitPinned
             ELSE NothingHappens]_vars

(***************************************************************************)
(* C17 - Round trip: for every History and Pinned the engine can reach, a  *)
(* completed save of both followed by a load with no mutation in between   *)
(* gives back the same records (ids, types, hashes, previews, flags, file  *)
(* names) in the same order, and the load succeeds.                        *)
(***************************************************************************)
C17_RoundTrip ==
    LET loaded == LoadDataOf(Saved(history), Saved(pinned))
    IN  /\ loaded.success
        /\ loaded.history = history
        /\ loaded.pinned = pinned

\* Both saves have just been started with a long text, a short text and an
\* image in the lists, and both lists hold items.
C17_Witness ==
    /\ fx.saveHistory /\ fx.savePinned
    /\ Len(history) > 0 /\ Len(pinned) > 0
    /\ \E i \in 1..Len(AllItems) : AllItems[i].has_full_content
    /\ \E i \in 1..Len(AllItems) : AllItems[i].type = "image"
    /\ \E i \in 1..Len(AllItems) :
          AllItems[i].type = "text" /\ ~AllItems[i].has_full_content

(***************************************************************************)
(* C20 - Once the initial load has succeeded, every step that changes the  *)
(* contents or the order of History (of Pinned) starts a write of that     *)
(* list's file and emits that list's signal in the same step; the pruning  *)
(* done when the max-history setting changes is such a step.               *)
(***************************************************************************)
C20_SaveAndEmitOnEveryChange ==
    [][initialLoadSuccess =>
          /\ history' # history => fx'.saveHistory /\ fx'.emitHistory
          /\ pinned' # pinned => fx'.savePinned /\ fx'.emitPinned]_vars

(***************************************************************************)
(* SpecStore: the startup of a session over what earlier sessions left on  *)
(* disk - the two JSON files and the two blob directories - followed by    *)
(* garbage collection and by reads of text blobs.                          *)
(***************************************************************************)
\* Number of records the two JSON files hold together at startup.
MaxStored == 2

\* Records of earlier sessions; their ids are uuids of those sessions and
\* differ from every id of this one.
StoredHello == TextItem(MaxIds + 1, "hello")
StoredLong == TextItem(MaxIds + 2, "long500")
StoredImage == ImageItem(MaxIds + 3, SHA256(ImageData("png1")))
StoredItems == {StoredHello, StoredLong, StoredImage}

\* The id of an item of an earlier session that is in neither file any more.
OrphanId == MaxIds + 4

StoredIds == (MaxIds + 1)..(MaxIds + 4)

\* The lists without repetition over a set of items, of length up to n.
RECURSIVE ListsOver(_, _)
ListsOver(items, n) ==
    IF n = 0 THEN {<<>>}
    ELSE {<<>>} \cup
         UNION {{<<x>> \o l : l \in ListsOver(items \ {x}, n - 1)} : x \in items}

\* What History and Pinned were when an earlier session saved them for the
\* last time: no item in both, at most MaxStored items together.
StoredPairs ==
    {pair \in ListsOver(StoredItems, MaxStored) \X ListsOver(StoredItems, MaxStored) :
        /\ Len(pair[1]) + Len(pair[2]) <= MaxStored
        /\ \A i \in 1..Len(pair[1]) : \A j \in 1..Len(pair[2]) :
              pair[1][i] # pair[2][j]}

\* The file of a list at startup: the completed save, readable or not, a
\* file that does not parse, or (nothing was ever saved) no file.
FilesOf(list) ==
    {Saved(list), Unreadable(list), Malformed}
    \cup (IF list = <<>> THEN {Missing} ELSE {})

\* `${id}.txt`
TxtName(id) == <<id, "txt">>

\* new TextDecoder().decode(bytes)
Utf8Decode(data) ==
    CASE data = "bytes:hello" -> "hello"
      [] data = "bytes:blank" -> "blank"
      [] data = "bytes:long500" -> "long500"

\* The files the directories may hold at startup: the blobs of the stored
\* items and those of the orphan.
ImageFiles == {StoredImage.image_filename, OrphanId}

TextFiles ==
    { [name |-> TxtName(StoredLong.id), data |-> Utf8("long500")],
      [name |-> TxtName(OrphanId), data |-> Utf8("hello")] }

\* Mutant of ValidImages: the pinned items are not collected.
ValidImagesOfHistory(h, p) ==
    {h[i].image_filename : i \in {j \in 1..Len(h) : h[j].type = "image"}}

\* validImages of runGarbageCollection
ValidImages(h, p) ==
    {p[i].image_filename : i \in {j \in 1..Len(p) : p[j].type = "image"}}
    \cup
    {h[i].image_filename : i \in {j \in 1..Len(h) : h[j].type = "image"}}

\* validTexts of runGarbageCollection
ValidTexts(h, p) ==
    {TxtName(p[i].id) :
        i \in {j \in 1..Len(p) : p[j].type = "text" /\ p[j].has_full_content}}
    \cup
    {TxtName(h[i].id) :
        i \in {j \in 1..Len(h) : h[j].type = "text" /\ h[j].has_full_content}}

\* Mutant of ToDelete: the enumeration ends after the first deletion.
ToDeleteFirstOnly(names, validNames) ==
    LET all == {name \in names : name \notin validNames}
    IN  IF all = {} THEN {} ELSE {CHOOSE name \in all : TRUE}

\* The names of a directory for which `!validNames.has(filename)`.
ToDelete(names, validNames) == {name \in names : name \notin validNames}

\* runGarbageCollection() over lists h, p and the two directories: the
\* directories it leaves and the files it deleted.  The directories hold
\* regular files of the user, which delete(null) removes.
RunGarbageCollection(h, p, images, texts) ==
    LET goneImages == ToDelete(images, ValidImages(h, p))
        goneTexts == ToDelete({file.name : file \in texts}, ValidTexts(h, p))
    IN  [imagesDir |-> images \ goneImages,
         textsDir |-> {file \in texts : file.name \notin goneTexts},
         deleted |-> {<<"images", name>> : name \in goneImages}
                     \cup {<<"texts", name[1]>> : name \in goneTexts}]

StoreInit ==
    /\ history = <<>>
    /\ pinned = <<>>
    /\ lastContent = NullContent
    /\ maxHistory = MaxMaxHistory
    /\ initialLoadSuccess = FALSE
    /\ nextId = 1
    /\ unpinOnPaste = FALSE
    /\ updateRecency = FALSE
    /\ \E pair \in StoredPairs :
          /\ historyFile \in FilesOf(pair[1])
          /\ pinnedFile \in FilesOf(pair[2])
    /\ phase = "loading"
    /\ fx = Quiet
    /\ imagesDir \in SUBSET ImageFiles
    /\ textsDir \in SUBSET TextFiles
    /\ returned = NoReturn
    /\ ViewIdle
    /\ RecentsIdle
    /\ WatcherIdle
    /\ IoIdle

\* enable() from `await loadAndPrepare()` to the garbage collection it runs
\* when the load succeeded (extension.js:578-606), with clear-data-at-login
\* off.  The continuations run back to back, no callback in between.
LoadAndCollect ==
    /\ phase = "loading"
    /\ phase' = "ready"
    /\ LET loaded == LoadDataOf(historyFile, pinnedFile)
           gc == RunGarbageCollection(loaded.history, loaded.pinned,
                                      imagesDir, textsDir)
       IN  /\ initialLoadSuccess' = loaded.success
           /\ history' = loaded.history
           /\ pinned' = loaded.pinned
           /\ IF loaded.success
              THEN /\ imagesDir' = gc.imagesDir
                   /\ textsDir' = gc.textsDir
                   /\ fx' = Effects("load", 0, NoHash, FALSE, FALSE, TRUE, TRUE,
                                    {}, gc.deleted)
              ELSE /\ UNCHANGED <<imagesDir, textsDir>>
                   /\ fx' = Effects("load", 0, NoHash, FALSE, FALSE, TRUE, TRUE,
                                    {}, {})
    /\ UNCHANGED <<lastContent, maxHistory, nextId, unpinOnPaste, updateRecency,
                   historyFile, pinnedFile, returned, viewVars, recentsVars,
                   watcherVars, ioVars>>

\* The deletions runGarbageCollection() decides on.
GcCandidates(h, p, images, texts) ==
    RunGarbageCollection(h, p, images, texts).deleted

\* The passes during which a file of the enumeration is gone by the time
\* delete(null) is called for it (removed meanwhile by a delete_async still
\* in flight or by another process): delete(null) throws, the catch around
\* the pass ends it.  `done` are the deletions made until then, in the
\* order of the enumeration; the images directory comes first.
RacedPasses(h, p, images, texts) ==
    LET candidates == GcCandidates(h, p, images, texts)
        ofImages == {file \in candidates : file[1] = "images"}
    IN  {pass \in [vanished : candidates, done : SUBSET candidates] :
            /\ pass.vanished \notin pass.done
            /\ IF pass.vanished[1] = "images"
               THEN pass.done \subseteq ofImages
               ELSE ofImages \subseteq pass.done}

\* enable() as in LoadAndCollect, with such a pass.
LoadAndCollectRaced(pass) ==
    /\ phase = "loading"
    /\ LET loaded == LoadDataOf(historyFile, pinnedFile)
           gone == pass.done \cup {pass.vanished}
       IN  /\ loaded.success
           /\ pass \in RacedPasses(loaded.history, loaded.pinned,
                                   imagesDir, textsDir)
           /\ phase' = "ready"
           /\ initialLoadSuccess' = TRUE
           /\ history' = loaded.history
           /\ pinned' = loaded.pinned
           /\ imagesDir' = {name \in imagesDir : <<"images", name>> \notin gone}
           /\ textsDir' = {file \in textsDir : <<"texts", file.name[1]>> \notin gone}
           /\ fx' = Effects("loadRaced", 0, NoHash, FALSE, FALSE, TRUE, TRUE,
                            {}, pass.done)
    /\ UNCHANGED <<lastContent, maxHistory, nextId, unpinOnPaste, updateRecency,
                   historyFile, pinnedFile, returned, viewVars, recentsVars,
                   watcherVars, ioVars>>

\* A further call of runGarbageCollection().
CollectGarbage ==
    /\ phase = "ready"
    /\ initialLoadSuccess
    /\ LET gc == RunGarbageCollection(history, pinned, imagesDir, textsDir)
       IN  /\ imagesDir' = gc.imagesDir
           /\ textsDir' = gc.textsDir
           /\ fx' = Effects("gc", 0, NoHash, FALSE, FALSE, FALSE, FALSE,
                            {}, gc.deleted)
    /\ UNCHANGED <<history, pinned, engineVars, nextId, returned, viewVars,
                   recentsVars, watcherVars,
                   ioVars>>

\* Mutant of ReadFailed: a failed read resolves to null.
ReadFailedGivesNull(item) == NullContent

\* What getContent resolves to when the blob is missing (bytes is null) or
\* the read was rejected (the catch): the stored preview.
ReadFailed(item) == item.preview

\* getContent(id), from the call to the value its promise resolves to.
\* readFails: load_contents_async of an existing file ends with an error.
GetContent(id, readFails) ==
    /\ phase = "ready"
    /\ LET items == history \o pinned
           index == FindIndexById(items, id)
           files == {file \in textsDir : file.name = TxtName(id)}
       IN  returned' =
             IF index = 0 \/ items[index].type # "text"
             THEN [id |-> id, read |-> "none", value |-> NullContent]
             ELSE IF items[index].has_full_content
             THEN IF files = {}
                  THEN [id |-> id, read |-> "notFound",
                        value |-> ReadFailed(items[index])]
                  ELSE IF readFails
                  THEN [id |-> id, read |-> "error",
                        value |-> ReadFailed(items[index])]
                  ELSE [id |-> id, read |-> "ok",
                        value |-> Utf8Decode((CHOOSE file \in files : TRUE).data)]
             ELSE [id |-> id, read |-> "none", value |-> items[index].preview]
    /\ fx' = Quiet
    /\ UNCHANGED <<history, pinned, engineVars, nextId, imagesDir, textsDir,
                   viewVars, recentsVars, watcherVars,
                   ioVars>>

\* The files the directories can hold.
BlobFiles ==
    {<<"images", name>> : name \in ImageFiles}
    \cup {<<"texts", file.name[1]>> : file \in TextFiles}

StoreNext ==
    \/ LoadAndCollect
    \/ \E pass \in [vanished : BlobFiles, done : SUBSET BlobFiles] :
          LoadAndCollectRaced(pass)
    \/ CollectGarbage
    \/ \E id \in StoredIds, readFails \in BOOLEAN : GetContent(id, readFails)

SpecStore == StoreInit /\ [][StoreNext]_vars

(***************************************************************************)
(* C13 - getContent(id) always resolves to a value: for a text item with   *)
(* has_full_content the content of <id>.txt when the file can be read, and *)
(* the stored preview when the file is missing or the read fails; for a    *)
(* text item without overflow the stored text; for an unknown id or an     *)
(* image item null.                                                        *)
(***************************************************************************)
\* The items of History and Pinned with this id.
ItemsWithId(id) == SelectSeq(AllItems, LAMBDA item : item.id = id)

Collected(effects, loadSucceeded) ==
    \/ effects.op = "gc"
    \/ effects.op = "load" /\ loadSucceeded

ReferencedImage(name, items) ==
    \E i \in 1..Len(items) :
        items[i].type = "image" /\ items[i].image_filename = name

ReferencedText(name, items) ==
    \E i \in 1..Len(items) :
        /\ items[i].type = "text"
        /\ items[i].has_full_content
        /\ TxtName(items[i].id) = name

C15_GarbageCollection ==
    [][Collected(fx', initialLoadSuccess') =>
          /\ \A name \in imagesDir' : ReferencedImage(name, AllItems')
          /\ \A file \in textsDir' : ReferencedText(file.name, AllItems')
          /\ \A name \in imagesDir :
                ReferencedImage(name, AllItems') => name \in imagesDir'
          /\ \A file \in textsDir :
                ReferencedText(file.name, AllItems') => file \in textsDir'
          /\ \A blob \in fx'.deleted : blob \notin BlobsOfAll(AllItems')]_vars

\* A pass has deleted an orphan and kept the blob of a pinned item.
C15_Witness ==
    /\ Collected(fx, initialLoadSuccess)
    /\ fx.deleted # {}
    /\ \E i \in 1..Len(pinned) :
          \/ pinned[i].type = "image" /\ pinned[i].image_filename \in imagesDir
          \/ pinned[i].has_full_content
                /\ \E file \in textsDir : file.name = TxtName(pinned[i].id)

(***************************************************************************)
(* C16 - Idempotent GC: a pass of runGarbageCollection that follows        *)
(* another pass, with no change of History, Pinned or the directories in   *)
(* between, deletes nothing.                                               *)
(***************************************************************************)
C16_IdempotentGC ==
    [][(Collected(fx, initialLoadSuccess) /\ CollectGarbage) =>
          /\ fx'.deleted = {}
          /\ UNCHANGED <<imagesDir, textsDir>>]_vars

\* A pass has followed the pass of the startup with files in both
\* directories, and has deleted none of them.
C16_Witness ==
    /\ fx.op = "gc"
    /\ fx.deleted = {}
    /\ imagesDir # {}
    /\ textsDir # {}

(***************************************************************************)
(* C18 - Loading never throws to the caller.  A store whose file is        *)
(* missing gets an empty list, and this is no load failure; a store whose  *)
(* file holds malformed JSON gets an empty list, while the other store     *)
(* holds the records of its own valid file.                                *)
(***************************************************************************)
\* What a store has to hold after the load, by its own file alone.
LoadedFromOwnFile(file, list) ==
    CASE file.kind = "missing" -> list = <<>>
      [] file.kind = "malformed" -> list = <<>>
      [] file.kind = "unreadable" -> list = <<>>
      [] file.kind = "json" ->
            \E saved \in ListsOver(StoredItems, MaxStored) :
                file = Saved(saved) /\ list = saved

C18_LoadNeverFails ==
    [][LoadAndCollect =>
          /\ phase' = "ready"
          /\ LoadedFromOwnFile(historyFile, history')
          /\ LoadedFromOwnFile(pinnedFile, pinned')
          /\ (historyFile.kind # "malformed" /\ pinnedFile.kind # "malformed")
                => initialLoadSuccess']_vars

(***************************************************************************)
(* SpecSnapshots: the engine core together with a caller of                *)
(* getHistoryItems() and getPinnedItems().  Both return the array the      *)
(* engine keeps (`return this._history`), not a copy of it; the engine     *)
(* changes its arrays in place (unshift, splice, pop) and replaces them    *)
(* only in loadData, before there is a UI to call the getters.  So what a  *)
(* caller reads through the array it got is what the engine's list holds   *)
(* at the moment of the read.                                              *)
(***************************************************************************)
\* The session: both files missing, both settings on (the calls change the
\* lists in every way they can), the smallest max-history (pruning happens
\* soonest).
SnapshotsInit ==
    /\ Init
    /\ historyFile = Missing
    /\ unpinOnPaste
    /\ updateRecency
    /\ maxHistory = 1

\* getHistoryItems(), called by the UI.
GetHistoryItems ==
    /\ phase = "ready"
    /\ held' = [array |-> "_history", atCall |-> history]
    /\ UNCHANGED <<history, pinned, engineVars, nextId, fx, storeVars,
                   recentsVars, watcherVars,
                   ioVars>>

\* getPinnedItems(), called by the UI.
GetPinnedItems ==
    /\ phase = "ready"
    /\ held' = [array |-> "_pinned", atCall |-> pinned]
    /\ UNCHANGED <<history, pinned, engineVars, nextId, fx, storeVars,
                   recentsVars, watcherVars,
                   ioVars>>

\* What a caller reads now through the array it got.
Contents(reference) ==
    CASE reference.array = "_history" -> history
      [] reference.array = "_pinned" -> pinned
      [] OTHER -> <<>>

SnapshotsNext ==
    \/ \E c \in ClipValues : ProcessClipboardContent(c)
    \/ \E id \in Ids : PinItem(id)
    \/ \E id \in Ids : UnpinItem(id)
    \/ \E id \in Ids : PromoteItemToTop(id)
    \/ \E id \in Ids : DeleteItem(id)
    \/ LoadAndPrepare
    \/ GetHistoryItems
    \/ GetPinnedItems

SpecSnapshots == SnapshotsInit /\ [][SnapshotsNext]_vars

(***************************************************************************)
(* C14 - getHistoryItems() and getPinnedItems() return snapshots: the      *)
(* sequence obtained from either call holds, whenever it is read later,    *)
(* what it held at the call - whatever ingestion, pinItem, unpinItem,      *)
(* promoteItemToTop, deleteItem or pruning came in between.                *)
(***************************************************************************)
C14_Snapshots ==
    held.array # "none" => Contents(held) = held.atCall

(***************************************************************************)
(* SpecRecents: one RecentItemsManager                                     *)
(* (src/extension/utilities/utilityRecents.js) from its construction, its  *)
(* load in flight, until destroy() is called.  An entry of the list is an  *)
(* object with a `value` and further properties (`label` here).            *)
(***************************************************************************)
\* Largest value of the max-items setting (the range 5..100 of prefs.js:271
\* scaled down to 0..MaxRecents).
MaxRecents == 2

DEFAULT_MAX_RECENTS_FALLBACK == 45

RecentValues == {"v1", "v2", "v3"}
RecentLabels == {"x", "y"}

Recent(value, label) == [value |-> value, label |-> label]

\* What callers may pass to addItem: null, an object whose value is not a
\* string, an object whose value is empty or blank, an object with a value.
RecentInputs ==
    { [isObject |-> FALSE, valueIsString |-> FALSE, value |-> "", label |-> "x"],
      [isObject |-> TRUE, valueIsString |-> FALSE, value |-> "", label |-> "x"],
      [isObject |-> TRUE, valueIsString |-> TRUE, value |-> "", label |-> "x"],
      [isObject |-> TRUE, valueIsString |-> TRUE, value |-> "  ", label |-> "x"] }
    \cup
    { [isObject |-> TRUE, valueIsString |-> TRUE, value |-> v, label |-> l] :
        v \in RecentValues, l \in RecentLabels }

\* value.trim() === ''
BlankValue(value) == value \in {"", "  "}

\* !item || typeof item.value !== 'string' || item.value.trim() === ''
InvalidRecent(item) ==
    \/ ~item.isObject
    \/ ~item.valueIsString
    \/ BlankValue(item.value)

\* The lists an earlier session saved: entries with pairwise different
\* values, possibly more than the present maximum.
StoredRecents ==
    ListsOver({Recent(v, "x") : v \in RecentValues}, MaxRecents + 1)

RecentsFiles ==
    {Missing, Malformed} \cup
    {[kind |-> "json", items |-> list] : list \in StoredRecents}

\* The values get_int may give: those of the range, and -1 for a value below
\* 0, for which _pruneRecents falls back on DEFAULT_MAX_RECENTS_FALLBACK.
RecentsMaxValues == (-1)..MaxRecents

\* The max of _pruneRecents.
EffectiveMax(max) == IF max >= 0 THEN max ELSE DEFAULT_MAX_RECENTS_FALLBACK

\* Mutant of PruneRecents: the list is left as long as it is.
PruneRecentsNever(list, max) == list

\* _pruneRecents(): `this._recents.length = max` when the list is longer.
PruneRecents(list, max) ==
    IF Len(list) > EffectiveMax(max) THEN SubSeq(list, 1, EffectiveMax(max))
    ELSE list

\* this._recents.findIndex(r => r.value === item.value), 1-based, 0 for -1.
ExistingIndex(list, value) ==
    IF \E i \in 1..Len(list) : list[i].value = value
    THEN CHOOSE i \in 1..Len(list) :
            /\ list[i].value = value
            /\ \A j \in 1..(i - 1) : list[j].value # value
    ELSE 0

\* Mutant of RemoveExisting: the existing entry is left in the list.
RemoveExistingNever(list, value) == list

\* if (existingIndex > -1) this._recents.splice(existingIndex, 1)
RemoveExisting(list, value) ==
    IF ExistingIndex(list, value) > 0
    THEN Splice(list, ExistingIndex(list, value))
    ELSE list

RecentsInit ==
    /\ recents = <<>>
    /\ maxItems \in RecentsMaxValues
    /\ isLoaded = FALSE
    /\ recentsFile \in RecentsFiles
    /\ rfx = RecentsQuiet
    /\ history = <<>>
    /\ pinned = <<>>
    /\ lastContent = NullContent
    /\ maxHistory = MaxMaxHistory
    /\ initialLoadSuccess = FALSE
    /\ nextId = 1
    /\ unpinOnPaste = FALSE
    /\ updateRecency = FALSE
    /\ historyFile = Missing
    /\ pinnedFile = Missing
    /\ phase = "loading"
    /\ fx = Quiet
    /\ StoreIdle
    /\ ViewIdle
    /\ WatcherIdle
    /\ IoIdle

\* What the engine's variables do while the RecentItemsManager acts.
engineIdle == <<history, pinned, engineVars, nextId, fx, storeVars, viewVars,
               watcherVars, ioVars>>

\* _load() resumes after its await and the constructor's then() runs: the
\* list is what the file holds, pruned, or [] for a missing file, a file
\* that does not parse or any other error; recents-changed is emitted.
RecentsLoad ==
    /\ ~isLoaded
    /\ isLoaded' = TRUE
    /\ recents' = IF recentsFile.kind = "json"
                  THEN PruneRecents(recentsFile.items, maxItems)
                  ELSE <<>>
    /\ rfx' = [op |-> "load", existed |-> FALSE, save |-> FALSE, emit |-> TRUE]
    /\ UNCHANGED <<maxItems, recentsFile, engineIdle>>

\* addItem(item)
AddRecentItem(item) ==
    /\ IF InvalidRecent(item)
       THEN /\ rfx' = RecentsQuiet
            /\ UNCHANGED recents
       ELSE /\ recents' = PruneRecents(
                             Unshift(RemoveExisting(recents, item.value),
                                     Recent(item.value, item.label)),
                             maxItems)
            /\ rfx' = [op |-> "addItem",
                       existed |-> ExistingIndex(recents, item.value) > 0,
                       save |-> TRUE, emit |-> TRUE]
    /\ UNCHANGED <<maxItems, isLoaded, recentsFile, engineIdle>>

\* The handler of changed::<max-items key>.
RecentsMaxChanged(max) ==
    /\ maxItems' = max
    /\ IF isLoaded
       THEN /\ recents' = PruneRecents(recents, max)
            /\ rfx' = [op |-> "maxChanged", existed |-> FALSE,
                       save |-> TRUE, emit |-> FALSE]
       ELSE /\ rfx' = RecentsQuiet
            /\ UNCHANGED recents
    /\ UNCHANGED <<isLoaded, recentsFile, engineIdle>>

RecentsNext ==
    \/ RecentsLoad
    \/ \E item \in RecentInputs : AddRecentItem(item)
    \/ \E max \in RecentsMaxValues : RecentsMaxChanged(max)

SpecRecents == RecentsInit /\ [][RecentsNext]_vars

(***************************************************************************)
(* C19 - RecentItemsManager.addItem(item) with a non-empty string value,   *)
(* the manager loaded: the list holds exactly one entry with that value,   *)
(* at index 0, when the maximum is > 0; the other entries keep their       *)
(* relative order; the list is truncated to the maximum; a save is started *)
(* and recents-changed emitted.  And whatever addItem calls are made, the  *)
(* list never holds two entries with the same value.                       *)
(***************************************************************************)
\* The entries of a list whose value is not the given one.
OtherRecents(list, value) == SelectSeq(list, LAMBDA r : r.value # value)

\* s is an initial part of t.
IsPrefix(s, t) == Len(s) <= Len(t) /\ s = SubSeq(t, 1, Len(s))

C19_AddItem ==
    [][/\ \A item \in RecentInputs :
             (AddRecentItem(item) /\ isLoaded /\ ~InvalidRecent(item)) =>
                /\ EffectiveMax(maxItems) > 0 =>
                      /\ recents'[1] = Recent(item.value, item.label)
                      /\ Len(SelectSeq(recents', LAMBDA r : r.value = item.value)) = 1
                /\ IsPrefix(OtherRecents(recents', item.value),
                            OtherRecents(recents, item.value))
                /\ Len(recents') =
                      IF Len(OtherRecents(recents, item.value)) + 1
                             > EffectiveMax(maxItems)
                      THEN EffectiveMax(maxItems)
                      ELSE Len(OtherRecents(recents, item.value)) + 1
                /\ rfx'.save /\ rfx'.emit
       /\ \A i, j \in 1..Len(recents') :
             i # j => recents'[i].value # recents'[j].value]_vars

\* addItem has just moved an entry that was in the list to the front, with
\* other entries behind it.
C19_Witness ==
    /\ isLoaded
    /\ rfx.op = "addItem"
    /\ rfx.existed
    /\ Len(recents) > 1

(***************************************************************************)
(* C21 - Write suppression lasts only until the initial load completes:    *)
(* once loadAndPrepare has resolved, also when the load failed and the     *)
(* engine started empty, a mutation of History or Pinned starts a write of *)
(* that list's file, and History is pruned to max_history again.  Stated   *)
(* for the steps that save and prune in a session whose load succeeded:    *)
(* ingestion, pinItem, unpinItem, promoteItemToTop, deleteItem.            *)
(***************************************************************************)
\* The step ran a handler that calls _pruneHistory after growing History.
PrunesAfterGrowth(effects) ==
    \/ Ingested(effects) /\ effects.id > 0
    \/ effects.op = "unpinItem"
    \/ effects.op = "promoteItemToTop" /\ effects.emitPinned

C21_WritesResumeAfterLoad ==
    [][(phase = "ready" /\ fx'.op # "maxHistoryChanged") =>
          /\ history' # history => fx'.saveHistory
          /\ pinned' # pinned => fx'.savePinned
          /\ PrunesAfterGrowth(fx') => Len(history') <= maxHistory]_vars

(***************************************************************************)
(* The clipboard watcher (SpecWatcher): the owner-changed callback with    *)
(* its pause flag, debounce counter and 50 ms timeout, the                 *)
(* _processClipboardContent() calls the timeout starts, and the handlers   *)
(* of the UI that copy an item back to the clipboard.                      *)
(***************************************************************************)
MaxSignals == 3
MaxDebounce == 2

\* Mutant of OnClipboardChanged: the counter is consulted before the pause.
OnClipboardChangedCounterFirst ==
    IF debouncing > 0
    THEN [debouncing |-> debouncing - 1, timerPending |-> timerPending,
          outcome |-> "debounced"]
    ELSE IF isPaused
    THEN [debouncing |-> debouncing, timerPending |-> timerPending,
          outcome |-> "paused"]
    ELSE [debouncing |-> debouncing, timerPending |-> TRUE,
          outcome |-> "scheduled"]

\* Mutant of OnClipboardChanged: a discarded signal clears the counter.
OnClipboardChangedClearsCounter ==
    IF isPaused
    THEN [debouncing |-> debouncing, timerPending |-> timerPending,
          outcome |-> "paused"]
    ELSE IF debouncing > 0
    THEN [debouncing |-> 0, timerPending |-> timerPending,
          outcome |-> "debounced"]
    ELSE [debouncing |-> debouncing, timerPending |-> TRUE,
          outcome |-> "scheduled"]

\* The 'owner-changed' callback, _onClipboardChanged, from the state it is
\* called in: the counter and the timeout it leaves, and what it did.
OnClipboardChanged ==
    IF isPaused
    THEN [debouncing |-> debouncing, timerPending |-> timerPending,
          outcome |-> "paused"]
    ELSE IF debouncing > 0
    THEN [debouncing |-> debouncing - 1, timerPending |-> timerPending,
          outcome |-> "debounced"]
    ELSE [debouncing |-> debouncing, timerPending |-> TRUE,
          outcome |-> "scheduled"]

\* Mutant of SourcesAfter: the pending timeout is not removed.
SourcesAfterKeepsPending(outcome) ==
    IF outcome = "scheduled" THEN sources + 1 ELSE sources

\* The timeout sources a call of _onClipboardChanged leaves: when it
\* schedules, the source of the stored id is removed and one is added.
SourcesAfter(outcome) ==
    IF outcome = "scheduled"
    THEN (IF timerPending THEN sources - 1 ELSE sources) + 1
    ELSE sources

Signal(cause, outcome) == [op |-> "ownerChanged", cause |-> cause, outcome |-> outcome]
Control(op) == [op |-> op, cause |-> "none", outcome |-> "none"]

\* What a copy of the item puts on the clipboard: set_text of its content,
\* set_content of the bytes of its image file.
ContentOf(item) ==
    IF item.type = "text"
    THEN [text |-> CHOOSE t \in Texts : SHA256(Utf8(t)) = item.hash,
          image |-> NoImage]
    ELSE [text |-> NoText,
          image |-> CHOOSE i \in Images : SHA256(ImageData(i)) = item.hash]

WatcherInit ==
    /\ Init
    /\ historyFile = Missing
    /\ maxHistory = MaxMaxHistory
    /\ ~unpinOnPaste
    /\ ~updateRecency

\* Another application takes the clipboard with content c, and the
\* 'owner-changed' signal of the selection reaches _onClipboardChanged.
ExternalCopy(c) ==
    /\ ~destroyed
    /\ signals < MaxSignals
    /\ clipboard' = c
    /\ signals' = signals + 1
    /\ debouncing' = OnClipboardChanged.debouncing
    /\ timerPending' = OnClipboardChanged.timerPending
    /\ sources' = SourcesAfter(OnClipboardChanged.outcome)
    /\ wfx' = Signal("external", OnClipboardChanged.outcome)
    /\ UNCHANGED <<destroyed, history, pinned, engineVars, nextId, fx, isPaused,
                   runs,
                   copying, storeVars, viewVars, recentsVars, ioVars>>

\* The 50 ms timeout of a pending source fires: _processClipboardContent()
\* starts and runs to its first await, the get_text request; the timeout id
\* is reset and the source, returning SOURCE_REMOVE, is gone.
TimeoutFires ==
    /\ sources > 0
    /\ sources' = sources - 1
    /\ timerPending' = FALSE
    /\ runs' = Append(runs, [started |-> signals, stage |-> "text",
                             seen |-> clipboard])
    /\ wfx' = Control("timeout")
    /\ UNCHANGED <<destroyed, history, pinned, engineVars, nextId, fx, clipboard, isPaused,
                   debouncing, copying, signals, storeVars, viewVars,
                   recentsVars, ioVars>>

\* The clipboard answers the oldest request.  A run with a text compares
\* and ingests it; a run without one goes on to the image types with a
\* request of its own, behind the requests made meanwhile; a run whose
\* image request is answered ingests the image or returns.
ProbeAnswered ==
    /\ runs # <<>>
    /\ LET run == Head(runs) IN
       IF run.stage = "text" /\ (run.seen.text = NoText \/ TrimmedIsEmpty(run.seen.text))
       THEN /\ runs' = Append(Tail(runs), [run EXCEPT !.stage = "image",
                                                      !.seen = clipboard])
            /\ wfx' = Control("continued")
            /\ UNCHANGED <<history, pinned, nextId, lastContent, fx>>
       ELSE /\ runs' = Tail(runs)
            /\ wfx' = Control("returned")
            /\ CompareAndAdd(IF run.stage = "text"
                             THEN [text |-> run.seen.text, image |-> NoImage]
                             ELSE [text |-> NoText, image |-> run.seen.image])
    /\ UNCHANGED <<destroyed, sources, maxHistory, initialLoadSuccess, unpinOnPaste,
                   updateRecency,
                   historyFile, pinnedFile, phase, clipboard, isPaused,
                   debouncing, timerPending, copying, signals, storeVars,
                   viewVars, recentsVars, ioVars>>

\* setPaused(isPaused), from the private mode button.
SetPaused(paused) ==
    /\ phase = "ready"
    /\ isPaused' = paused
    /\ wfx' = Control("setPaused")
    /\ UNCHANGED <<destroyed, sources, history, pinned, engineVars, nextId, fx, clipboard,
                   debouncing, timerPending, runs, copying, signals, storeVars,
                   viewVars, recentsVars, ioVars>>

\* A call of _onItemCopyToClipboard(itemData) between two of its awaits:
\* before the content of the item is there, or before the paste.
Awaiting(item, stage) == [item |-> item, stage |-> stage]

\* _onItemCopyToClipboard(itemData) to its first await: setDebounce(), then
\* the read of the content of the item.
CopyStarts(item) ==
    /\ phase = "ready"
    /\ FindIndexById(history, item.id) # 0
    /\ item = history[FindIndexById(history, item.id)]
    /\ \A stage \in {"content", "paste"} : Awaiting(item, stage) \notin copying
    /\ debouncing < MaxDebounce
    /\ debouncing' = debouncing + 1
    /\ copying' = copying \cup {Awaiting(item, "content")}
    /\ wfx' = Control("setDebounce")
    /\ UNCHANGED <<destroyed, sources, history, pinned, engineVars, nextId, fx, clipboard, isPaused,
                   timerPending, runs, signals, storeVars, viewVars,
                   recentsVars, ioVars>>

\* The copy has its content: getContent(id) of a text resolved to a string
\* (null once the item has left the lists), the file of an image was read.
CopySucceeds(item, readFails) ==
    IF item.type = "text"
    THEN \E i \in 1..Len(AllItems) : AllItems[i].id = item.id
    ELSE ~readFails

\* The clipboard write of a copy with its 'owner-changed' callback.
CopyWrites(item) ==
    /\ signals < MaxSignals
    /\ clipboard' = ContentOf(item)
    /\ signals' = signals + 1
    /\ debouncing' = OnClipboardChanged.debouncing
    /\ timerPending' = OnClipboardChanged.timerPending
    /\ sources' = SourcesAfter(OnClipboardChanged.outcome)
    /\ wfx' = Signal("self", OnClipboardChanged.outcome)

\* A copy that set nothing on the clipboard.
CopyFails ==
    /\ wfx' = Control("copyFailed")
    /\ UNCHANGED <<clipboard, signals, debouncing, timerPending, sources>>

\* _onItemCopyToClipboard(itemData) from the content read to the import of
\* the auto-paste utility, or to its end when nothing was copied.
CopyEnds(item, readFails) ==
    /\ Awaiting(item, "content") \in copying
    /\ IF CopySucceeds(item, readFails)
       THEN /\ CopyWrites(item)
            /\ copying' = (copying \ {Awaiting(item, "content")})
                              \cup {Awaiting(item, "paste")}
       ELSE /\ CopyFails
            /\ copying' = copying \ {Awaiting(item, "content")}
    /\ UNCHANGED <<destroyed, history, pinned, engineVars, nextId, fx, isPaused,
                   runs,
                   storeVars, viewVars, recentsVars, ioVars>>

\* _onItemCopyToClipboard(itemData) after a successful copy: with
\* auto-paste on, setDebounce() once more before the paste keystroke.  With
\* update-recency-on-copy and unpin-on-paste off, promoteItemToTop(id)
\* leaves an item of History alone.
CopyPastes(item, autoPaste) ==
    /\ Awaiting(item, "paste") \in copying
    /\ copying' = copying \ {Awaiting(item, "paste")}
    /\ IF autoPaste
       THEN /\ debouncing < MaxDebounce
            /\ debouncing' = debouncing + 1
            /\ wfx' = Control("setDebounce")
       ELSE /\ wfx' = Control("copied")
            /\ UNCHANGED debouncing
    /\ UNCHANGED <<destroyed, sources, history, pinned, engineVars, nextId, fx, clipboard, isPaused,
                   timerPending, runs, signals, storeVars, viewVars,
                   recentsVars, ioVars>>

\* RecentlyUsedTabContent._onItemClicked for an item of the clipboard: the
\* same copy, without a call of setDebounce().
RecentItemClicked(item, readFails) ==
    /\ phase = "ready"
    /\ FindIndexById(history, item.id) # 0
    /\ item = history[FindIndexById(history, item.id)]
    /\ IF CopySucceeds(item, readFails)
       THEN CopyWrites(item)
       ELSE CopyFails
    /\ UNCHANGED <<destroyed, history, pinned, engineVars, nextId, fx, isPaused,
                   runs,
                   copying, storeVars, viewVars, recentsVars, ioVars>>

\* The items the UI shows, or was showing when a copy started.
ShownItems ==
    {history[i] : i \in 1..Len(history)} \cup {call.item : call \in copying}

WatcherNext ==
    \/ \E c \in ClipValues : ExternalCopy(c)
    \/ TimeoutFires
    \/ ProbeAnswered
    \/ \E paused \in BOOLEAN : SetPaused(paused)
    \/ \E item \in ShownItems : CopyStarts(item)
    \/ \E item \in ShownItems, readFails \in BOOLEAN : CopyEnds(item, readFails)
    \/ \E item \in ShownItems, autoPaste \in BOOLEAN : CopyPastes(item, autoPaste)
    \/ \E item \in ShownItems, readFails \in BOOLEAN :
          RecentItemClicked(item, readFails)
    \/ LoadAndPrepare

SpecWatcher == WatcherInit /\ [][WatcherNext]_vars

(***************************************************************************)
(* C22 - Ordering of overlapping changes: when the debounce timer of a     *)
(* change fires before the timer of another, the ingestion of the first is *)
(* committed before the ingestion of the second; two runs of the           *)
(* processing are never interleaved.  Stated on the steps: a run that      *)
(* compares and ingests its content is the oldest run in progress.         *)
(***************************************************************************)
\* The step is the continuation of a run that reached the comparison with
\* _lastContent.
RunCommits == ProbeAnswered /\ wfx'.op = "returned" /\ Processed(fx')

C22_RunsInTimerOrder ==
    [][RunCommits =>
          \A i \in 2..Len(runs) : runs[i].started > runs[1].started]_vars

(***************************************************************************)
(* C23 - Self-write suppression is one-to-one: every owner-changed signal  *)
(* caused by a copy-back of the engine is discarded, and no owner-changed  *)
(* signal caused by another application while the engine is not paused is  *)
(* discarded by the debounce counter.                                      *)
(***************************************************************************)
C23_SelfWriteSuppression ==
    wfx.op = "ownerChanged" =>
        /\ wfx.cause = "self" => wfx.outcome = "debounced"
        /\ wfx.cause = "external" => wfx.outcome # "debounced"

\* The step is a call of setDebounce().
SetDebounceCalled ==
    \/ \E item \in ShownItems : CopyStarts(item)
    \/ \E item \in ShownItems : CopyPastes(item, TRUE)

\* The step is a call of setPaused(isPaused).
SetPausedCalled == \E paused \in BOOLEAN : SetPaused(paused)

\* The step delivers an owner-changed signal to _onClipboardChanged.
OwnerChanged == signals' = signals + 1

(***************************************************************************)
(* C24 - Debounce counter: from a counter of 0, after k calls of           *)
(* setDebounce() the next k owner-changed signals received while not       *)
(* paused are discarded, each decrementing the counter, and the signal     *)
(* after them is scheduled; the counter is never negative.  Stated on the  *)
(* steps: setDebounce() adds one; a signal received while not paused takes *)
(* one off a positive counter, is discarded and schedules nothing, and is  *)
(* scheduled at a counter of 0; nothing else changes the counter.          *)
(***************************************************************************)
C24_DebounceCounter ==
    [][/\ debouncing' >= 0
       /\ SetDebounceCalled => debouncing' = debouncing + 1
       /\ (OwnerChanged /\ ~isPaused /\ debouncing > 0) =>
             /\ debouncing' = debouncing - 1
             /\ wfx'.outcome = "debounced"
             /\ UNCHANGED <<timerPending, runs>>
       /\ (OwnerChanged /\ ~isPaused /\ debouncing = 0) =>
             /\ debouncing' = 0
             /\ wfx'.outcome = "scheduled"
             /\ timerPending'
       /\ (~SetDebounceCalled /\ ~OwnerChanged) => debouncing' = debouncing]_vars

\* After two calls of setDebounce() the first signal has been discarded and
\* the second is still to come.
C24_Witness ==
    /\ wfx.op = "ownerChanged"
    /\ wfx.outcome = "debounced"
    /\ debouncing = 1
    /\ ~isPaused
    /\ ~timerPending

(***************************************************************************)
(* C25 - Private mode: an owner-changed signal received while paused       *)
(* schedules no processing and leaves History, Pinned, the debounce        *)
(* counter, the last observed content and all files unchanged; setPaused   *)
(* and setDebounce write nothing to disk.                                  *)
(***************************************************************************)
C25_PrivateMode ==
    [][/\ (OwnerChanged /\ isPaused) =>
             /\ wfx'.outcome = "paused"
             /\ UNCHANGED <<timerPending, runs, history, pinned, debouncing,
                            lastContent, historyFile, pinnedFile, imagesDir,
                            textsDir, fx>>
       /\ (SetPausedCalled \/ SetDebounceCalled) =>
             UNCHANGED <<historyFile, pinnedFile, imagesDir, textsDir, fx>>]_vars

\* A signal was received while paused, with calls of setDebounce() not yet
\* used up and a timeout pending.
C25_Witness ==
    /\ wfx.op = "ownerChanged"
    /\ wfx.outcome = "paused"
    /\ isPaused
    /\ debouncing > 0
    /\ timerPending

(***************************************************************************)
(* C26 - The garbage collection of the startup never deletes a blob file   *)
(* referenced by a record stored in the History or Pinned file on disk:    *)
(* when a backing file exists but could not be read or parsed, the         *)
(* collection is not run against lists defaulted to empty.                 *)
(***************************************************************************)
\* The records a backing file holds on disk.
RecordsIn(file) == IF file.kind = "missing" THEN <<>> ELSE JsonParse(file.items)

C26_StoredBlobsSurviveStartup ==
    [][LoadAndCollect =>
          fx'.deleted \cap (BlobsOfAll(RecordsIn(historyFile))
                            \cup BlobsOfAll(RecordsIn(pinnedFile))) = {}]_vars

(***************************************************************************)
(* C27 - The garbage collection tolerates missing files: when a file it    *)
(* decides to delete has already disappeared, this is no error and the     *)
(* pass still deletes every other unreferenced file of both directories.   *)
(***************************************************************************)
C27_MissingFileTolerated ==
    [][\A pass \in [vanished : BlobFiles, done : SUBSET BlobFiles] :
          LoadAndCollectRaced(pass) =>
             GcCandidates(history', pinned', imagesDir', textsDir') = {}]_vars

(***************************************************************************)
(* Asynchronous file operations (SpecIO).  _saveFile starts replace_async  *)
(* and, from its callback, write_bytes_async; _deleteImageFile and         *)
(* _deleteTextFile start delete_async.  None of them is awaited and        *)
(* nothing orders two of them: each is carried out by the I/O threads and  *)
(* takes effect on the disk when it completes, in any order.  The session  *)
(* is followed from the end of enable() on a profile without data: the     *)
(* load has succeeded with two empty lists and the garbage collection has  *)
(* found two empty directories.                                            *)
(***************************************************************************)
MaxPending == 3
MaxIoIds == 2

\* _saveFile(file, bytes) for a blob.
WriteOp(blob, bytes) ==
    [kind |-> "write", target |-> blob, bytes |-> bytes, items |-> <<>>]

\* delete_async of a blob.
DeleteOp(blob) ==
    [kind |-> "delete", target |-> blob, bytes |-> "none", items |-> <<>>]

\* _saveFile(file, bytes) for history_clipboard.json or pinned_clipboard.json.
SaveOp(store, list) ==
    [kind |-> "save", target |-> <<store, 0>>, bytes |-> "json",
     items |-> JsonStringify(list)]

\* A write or a save that ended with an error: replace_finish or
\* write_bytes_finish threw, and the catch logged it.
Failed(op) == [op EXCEPT !.kind = "failed"]

\* The bytes handed to _saveFile for the blob of a new item.
BlobBytes(blob, hash) ==
    IF blob[1] = "texts"
    THEN Utf8(CHOOSE text \in Texts : SHA256(Utf8(text)) = hash)
    ELSE "image"

\* The operations a callback with these effects has started, h and p being
\* the lists it leaves.
Started(effects, h, p) ==
    {WriteOp(blob, BlobBytes(blob, effects.hash)) : blob \in effects.wrote}
    \cup {DeleteOp(blob) : blob \in effects.deleted}
    \cup (IF effects.saveHistory THEN {SaveOp("history", h)} ELSE {})
    \cup (IF effects.savePinned THEN {SaveOp("pinned", p)} ELSE {})

\* The callback of the step has started its operations.
StartIO ==
    /\ io' = io \cup Started(fx', history', pinned')
    /\ Cardinality(io') <= MaxPending
    /\ nextId' <= MaxIoIds + 1
    /\ UNCHANGED <<storeVars, viewVars, recentsVars, watcherVars>>

IoInit ==
    /\ history = <<>>
    /\ pinned = <<>>
    /\ lastContent = NullContent
    /\ maxHistory \in MaxHistoryValues
    /\ initialLoadSuccess = TRUE
    /\ nextId = 1
    /\ unpinOnPaste = FALSE
    /\ updateRecency = TRUE
    /\ historyFile = Missing
    /\ pinnedFile = Missing
    /\ phase = "ready"
    /\ fx = Quiet
    /\ StoreIdle
    /\ ViewIdle
    /\ RecentsIdle
    /\ WatcherIdle
    /\ IoIdle

\* The callbacks of the engine core, each with the operations it starts.
IoProcessClipboardContent(c) ==
    /\ CompareAndAdd(c)
    /\ StartIO
    /\ UNCHANGED <<maxHistory, initialLoadSuccess, unpinOnPaste, updateRecency,
                   historyFile, pinnedFile, phase>>

IoPinItem(id) == PinItemCall(id) /\ StartIO

IoUnpinItem(id) == UnpinItemCall(id) /\ StartIO

IoPromoteItemToTop(id) == PromoteItemToTopCall(id) /\ StartIO

IoDeleteItem(id) == DeleteItemCall(id) /\ StartIO

IoMaxHistoryChanged(m) == MaxHistoryChangedCall(m) /\ StartIO

\* The disk after an operation has completed.  replace_async writes a
\* temporary file that takes the place of the target when the stream is
\* closed; delete_async of a file that is not there changes nothing.
IoCompletes(op) ==
    /\ op \in io
    /\ op.kind # "failed"
    /\ io' = io \ {op}
    /\ imagesDir' =
          IF op.target[1] # "images" THEN imagesDir
          ELSE IF op.kind = "write" THEN imagesDir \cup {op.target[2]}
          ELSE imagesDir \ {op.target[2]}
    /\ textsDir' =
          IF op.target[1] # "texts" THEN textsDir
          ELSE {file \in textsDir : file.name # TxtName(op.target[2])}
               \cup (IF op.kind = "write"
                     THEN {[name |-> TxtName(op.target[2]), data |-> op.bytes]}
                     ELSE {})
    /\ historyFile' =
          IF op.target[1] = "history"
          THEN [kind |-> "json", items |-> op.items] ELSE historyFile
    /\ pinnedFile' =
          IF op.target[1] = "pinned"
          THEN [kind |-> "json", items |-> op.items] ELSE pinnedFile
    /\ UNCHANGED <<history, pinned, lastContent, maxHistory, initialLoadSuccess,
                   nextId, unpinOnPaste, updateRecency, phase, fx, returned,
                   viewVars, recentsVars, watcherVars>>

\* A write or a save ends with an error and leaves the disk as it was.
IoFails(op) ==
    /\ op \in io
    /\ op.kind \in {"write", "save"}
    /\ io' = (io \ {op}) \cup {Failed(op)}
    /\ UNCHANGED <<history, pinned, engineVars, nextId, fx, storeVars, viewVars,
                   recentsVars, watcherVars>>

IoNext ==
    \/ \E c \in ClipValues : IoProcessClipboardContent(c)
    \/ \E id \in Ids : IoPinItem(id)
    \/ \E id \in Ids : IoUnpinItem(id)
    \/ \E id \in Ids : IoPromoteItemToTop(id)
    \/ \E id \in Ids : IoDeleteItem(id)
    \/ \E m \in MaxHistoryValues : IoMaxHistoryChanged(m)
    \/ \E op \in io : IoCompletes(op)

SpecIO == IoInit /\ [][IoNext]_vars

\* The same session with failing writes and a reader: ingestions, the
\* completion or failure of what they started, and calls of getContent(id).
ReadNext ==
    \/ \E c \in ClipValues : IoProcessClipboardContent(c)
    \/ \E op \in io : IoCompletes(op)
    \/ \E op \in io : IoFails(op)
    \/ \E id \in Ids, readFails \in BOOLEAN : GetContent(id, readFails)

SpecRead == IoInit /\ [][ReadNext]_vars

\* No operation is in flight and none has failed.
Quiescent == io = {}

\* The files of the two blob directories.
FilesOnDisk ==
    {<<"images", name>> : name \in imagesDir}
    \cup {<<"texts", file.name[1]>> : file \in textsDir}

(***************************************************************************)
(* C28 - Blob reference invariant: in every quiescent state after a        *)
(* successful load and the garbage collection of the startup, the files of *)
(* the text and image directories are exactly the blobs referenced by the  *)
(* items of History and Pinned, and each is referenced by one item only.   *)
(***************************************************************************)
C28_BlobReferenceInvariant ==
    (Quiescent /\ phase = "ready" /\ initialLoadSuccess) =>
        /\ FilesOnDisk = BlobsOfAll(AllItems)
        /\ \A i, j \in 1..Len(AllItems) :
              i # j => BlobsOf(AllItems[i]) \cap BlobsOf(AllItems[j]) = {}

\* The file of a list holds its serialization; no file stands for a list
\* that was never saved.
Persisted(file, list) ==
    \/ file = Saved(list)
    \/ file = Missing /\ list = <<>>

(***************************************************************************)
(* C29 - Persistence converges: after a successful load, once every        *)
(* started write has completed without error, the History file holds the   *)
(* serialization of History in memory, and the Pinned file that of Pinned. *)
(***************************************************************************)
C29_PersistenceConverges ==
    (Quiescent /\ phase = "ready" /\ initialLoadSuccess) =>
        /\ Persisted(historyFile, history)
        /\ Persisted(pinnedFile, pinned)

\* The text whose ingestion created the item.
IngestedText(item) == CHOOSE text \in Texts : SHA256(Utf8(text)) = item.hash

(***************************************************************************)
(* C30 - Content fidelity: for every text item of History and Pinned,      *)
(* getContent(id) resolves to exactly the text that was ingested, also     *)
(* while the write of <id>.txt has not completed or after it has failed.   *)
(* Stated for the calls whose own read does not end with an error.         *)
(***************************************************************************)
C30_ContentFidelity ==
    [][\A id \in Ids :
          GetContent(id, FALSE) =>
             \A i \in 1..Len(AllItems) :
                (AllItems[i].id = id /\ AllItems[i].type = "text") =>
                    returned'.value = IngestedText(AllItems[i])]_vars

(***************************************************************************)
(* Files that hold JSON other than an array (SpecShapes).  loadData        *)
(* assigns whatever JSON.parse returned; `history` and `pinned` keep a     *)
(* sequence here, and whether this._history and this._pinned are arrays is *)
(* told by the file each was loaded from: nothing but loadData assigns     *)
(* them, and no write is followed to its completion in this specification. *)
(***************************************************************************)
HistoryIsArray == ~(initialLoadSuccess /\ historyFile.kind = "notArray")

PinnedIsArray == ~(initialLoadSuccess /\ pinnedFile.kind = "notArray")

\* The files at startup.
ShapesFiles(list) == {Missing, Malformed, Empty, NotArray, Saved(list)}

ShapesInit ==
    /\ history = <<>>
    /\ pinned = <<>>
    /\ lastContent = NullContent
    /\ maxHistory = MaxMaxHistory
    /\ initialLoadSuccess = FALSE
    /\ nextId = 1
    /\ unpinOnPaste \in BOOLEAN
    /\ updateRecency = TRUE
    /\ historyFile \in ShapesFiles(<<StoredLong>>)
    /\ pinnedFile \in ShapesFiles(<<StoredHello>>)
    /\ phase = "loading"
    /\ fx = Quiet
    /\ StoreIdle
    /\ ViewIdle
    /\ RecentsIdle
    /\ WatcherIdle
    /\ IoIdle

\* A TypeError leaves the method: findIndex, unshift or the spread of a
\* value that is not an array.
Throws(id) == fx' = NoEffects("TypeError", id, NoHash)

\* _processClipboardContent with content: the TypeError of _addTextItem or
\* _addImageItem is caught by the try around the run, after _lastContent
\* was set.
ShapesProcessClipboardContent(c) ==
    /\ c.text # NoText \/ c.image # NoImage
    /\ IF HistoryIsArray /\ PinnedIsArray
       THEN CompareAndAdd(c)
       ELSE LET content == IF c.text # NoText /\ ~TrimmedIsEmpty(c.text)
                           THEN c.text ELSE SHA256(ImageData(c.image))
            IN  /\ c.image # NoImage \/ ~TrimmedIsEmpty(c.text)
                /\ lastContent' = content
                /\ fx' = NoEffects("caught", 0, NoHash)
                /\ UNCHANGED <<history, pinned, nextId>>
    /\ UNCHANGED <<maxHistory, initialLoadSuccess, unpinOnPaste, updateRecency,
                   historyFile, pinnedFile, phase, otherVars>>

\* pinItem(id): this._history.findIndex first, this._pinned.unshift after
\* the splice.
ShapesPinItem(id) ==
    /\ phase = "ready"
    /\ IF ~HistoryIsArray
       THEN Throws(id) /\ UNCHANGED <<history, pinned, engineVars, nextId>>
       ELSE IF FindIndexById(history, id) # 0 /\ ~PinnedIsArray
       THEN /\ history' = Splice(history, FindIndexById(history, id))
            /\ Throws(id)
            /\ UNCHANGED <<pinned, engineVars, nextId>>
       ELSE PinItemCall(id)
    /\ UNCHANGED otherVars

\* unpinItem(id): this._pinned.findIndex first, this._history.unshift after
\* the splice.
ShapesUnpinItem(id) ==
    /\ phase = "ready"
    /\ IF ~PinnedIsArray
       THEN Throws(id) /\ UNCHANGED <<history, pinned, engineVars, nextId>>
       ELSE IF FindIndexById(pinned, id) # 0 /\ ~HistoryIsArray
       THEN /\ pinned' = Splice(pinned, FindIndexById(pinned, id))
            /\ Throws(id)
            /\ UNCHANGED <<history, engineVars, nextId>>
       ELSE UnpinItemCall(id)
    /\ UNCHANGED otherVars

\* promoteItemToTop(id): this._pinned.findIndex first; this._history is
\* reached by unshift for a pinned item with unpin-on-paste on, by
\* findIndex for an id that is not pinned.
ShapesPromoteItemToTop(id) ==
    /\ phase = "ready"
    /\ IF ~PinnedIsArray
       THEN Throws(id) /\ UNCHANGED <<history, pinned, engineVars, nextId>>
       ELSE IF HistoryIsArray \/ (FindIndexById(pinned, id) # 0 /\ ~unpinOnPaste)
       THEN PromoteItemToTopCall(id)
       ELSE /\ pinned' = IF FindIndexById(pinned, id) # 0
                         THEN Splice(pinned, FindIndexById(pinned, id))
                         ELSE pinned
            /\ Throws(id)
            /\ UNCHANGED <<history, engineVars, nextId>>
    /\ UNCHANGED otherVars

\* deleteItem(id): deleteLogic(this._history), then deleteLogic(this._pinned).
ShapesDeleteItem(id) ==
    /\ phase = "ready"
    /\ IF ~HistoryIsArray
       THEN Throws(id) /\ UNCHANGED <<history, pinned, engineVars, nextId>>
       ELSE IF ~PinnedIsArray
       THEN /\ history' = DeleteLogic(history, id).list
            /\ fx' = Effects("TypeError", id, NoHash, FALSE, FALSE, FALSE, FALSE,
                             {}, DeleteLogic(history, id).deleted)
            /\ UNCHANGED <<pinned, engineVars, nextId>>
       ELSE DeleteItemCall(id)
    /\ UNCHANGED otherVars

\* getContent(id): the spread of both lists comes first; a throw rejects
\* the promise the caller awaits.
ShapesGetContent(id) ==
    /\ phase = "ready"
    /\ ~HistoryIsArray \/ ~PinnedIsArray
    /\ Throws(id)
    /\ UNCHANGED <<history, pinned, engineVars, nextId, otherVars>>

ShapesNext ==
    \/ LoadAndPrepare
    \/ \E c \in ClipValues : ShapesProcessClipboardContent(c)
    \/ \E id \in Ids \cup StoredIds : ShapesPinItem(id)
    \/ \E id \in Ids \cup StoredIds : ShapesUnpinItem(id)
    \/ \E id \in Ids \cup StoredIds : ShapesPromoteItemToTop(id)
    \/ \E id \in Ids \cup StoredIds : ShapesDeleteItem(id)
    \/ \E id \in Ids \cup StoredIds : ShapesGetContent(id)

SpecShapes == ShapesInit /\ [][ShapesNext]_vars

(***************************************************************************)
(* C31 - No exception reaches the UI layer: for any content of the backing *)
(* files, valid JSON that is not an array and an empty file included,      *)
(* History and Pinned are arrays after the load, and pinItem, unpinItem,   *)
(* deleteItem, promoteItemToTop, getContent and the ingestion complete     *)
(* without throwing to their caller.                                       *)
(***************************************************************************)
C31_NoExceptionReachesUI ==
    /\ phase = "ready" => HistoryIsArray /\ PinnedIsArray
    /\ fx.op # "TypeError"

(***************************************************************************)
(* C32 - Live re-prune: immediately after the max-history setting changes  *)
(* to m, History has at most m items, the items it lost are its oldest     *)
(* (its tail), the deletion of every blob of a lost item has been          *)
(* requested, and Pinned is unchanged.                                     *)
(***************************************************************************)
C32_LiveRePrune ==
    [][fx'.op = "maxHistoryChanged" =>
          /\ Len(history') <= maxHistory'
          /\ history' = SubSeq(history, 1, Len(history'))
          /\ fx'.deleted =
                 BlobsOfAll(SubSeq(history, Len(history') + 1, Len(history)))
          /\ pinned' = pinned]_vars

(***************************************************************************)
(* C33 - LRU eviction: every ingestion of a content that is in neither     *)
(* list puts the new item first in History and keeps, behind it, the most  *)
(* recent items up to the maximum, in their order; the deletion of every   *)
(* blob of an item that fell off the end has been requested.  Hence k      *)
(* distinct contents ingested in a row leave the min(k, m) most recent,    *)
(* most recent first.                                                      *)
(***************************************************************************)
MostRecent(h, m) == SubSeq(h, 1, IF Len(h) < m THEN Len(h) ELSE m)

C33_LruEviction ==
    [][(Ingested(fx') /\ fx'.id > 0) =>
          /\ history' # <<>>
          /\ history'[1].id = fx'.id
          /\ history' = MostRecent(<<history'[1]>> \o history, maxHistory)
          /\ fx'.deleted =
                 BlobsOfAll(SubSeq(history, Len(history') , Len(history)))]_vars

(***************************************************************************)
(* The end of the manager: destroy(), called by disable() of the           *)
(* extension, with the timeout, the runs of _processClipboardContent() and  *)
(* the load that may be under way when it is called.                       *)
(***************************************************************************)
\* Mutant of Destroy: the pending timeout is left in place.
DestroyKeepsTimeout ==
    /\ ~destroyed
    /\ destroyed' = TRUE
    /\ wfx' = [op |-> "destroy", cause |-> "none",
               outcome |-> IF timerPending THEN "timeoutRemoved" ELSE "none"]
    /\ fx' = Quiet
    /\ UNCHANGED <<timerPending, sources, history, pinned, engineVars, nextId,
                   clipboard, isPaused, debouncing, runs, copying, signals,
                   storeVars, viewVars, recentsVars, ioVars>>

\* destroy(): the source of the stored timeout id is removed and the id
\* reset, the 'owner-changed' and the settings handlers are disconnected.
\* The runs in progress are left alone.
Destroy ==
    /\ ~destroyed
    /\ destroyed' = TRUE
    /\ timerPending' = FALSE
    /\ sources' = IF timerPending THEN sources - 1 ELSE sources
    /\ wfx' = [op |-> "destroy", cause |-> "none",
               outcome |-> IF timerPending THEN "timeoutRemoved" ELSE "none"]
    /\ fx' = Quiet
    /\ UNCHANGED <<history, pinned, engineVars, nextId, clipboard, isPaused,
                   debouncing, runs, copying, signals, storeVars, viewVars,
                   recentsVars, ioVars>>

\* Another application takes the clipboard after destroy(): the handler of
\* 'owner-changed' is disconnected and nothing of the manager runs.
OwnerChangedDisconnected(c) ==
    /\ destroyed
    /\ clipboard # c
    /\ clipboard' = c
    /\ wfx' = [op |-> "ownerChanged", cause |-> "external",
               outcome |-> "disconnected"]
    /\ UNCHANGED <<destroyed, sources, history, pinned, engineVars, nextId, fx,
                   isPaused, debouncing, timerPending, runs, copying, signals,
                   storeVars, viewVars, recentsVars, ioVars>>

LifecycleNext ==
    \/ \E c \in ClipValues : ExternalCopy(c)
    \/ \E c \in ClipValues : OwnerChangedDisconnected(c)
    \/ TimeoutFires
    \/ ProbeAnswered
    \/ \E paused \in BOOLEAN : SetPaused(paused)
    \/ LoadAndPrepare
    \/ Destroy

SpecLifecycle == WatcherInit /\ [][LifecycleNext]_vars

(***************************************************************************)
(* C34 - Once destroy() has returned, no step changes History or Pinned,   *)
(* starts a file write or emits a signal, also when a run of the           *)
(* processing was awaiting a probe of the clipboard when destroy() was     *)
(* called.                                                                 *)
(***************************************************************************)
C34_NothingAfterDestroy ==
    [][destroyed =>
          /\ history' = history
          /\ pinned' = pinned
          /\ fx' # fx => NoWrites(fx') /\ NoSignals(fx')]_vars

(***************************************************************************)
(* C35 - destroy() called while a debounce timeout is pending removes it:  *)
(* from then on no timeout source is pending, the callback of a timeout    *)
(* never runs, and no change of the clipboard owner schedules a new one.   *)
(***************************************************************************)
C35_DestroyCancelsTimeout ==
    [][/\ destroyed' => ~timerPending' /\ sources' = 0
       /\ destroyed => ~TimeoutFires /\ Len(runs') <= Len(runs)]_vars

\* destroy() has just removed a pending timeout.
C35_Witness == destroyed /\ wfx.outcome = "timeoutRemoved"

(***************************************************************************)
(* C36 - Coalescing: at most one debounce timeout is pending at any time;  *)
(* signals that each arrive before the timeout of the previous one fired   *)
(* result in one inspection of the clipboard, started after the last of    *)
(* them: a timeout that fires leaves none pending, and the run it starts   *)
(* is the only one started since the last signal.                          *)
(***************************************************************************)
C36_Coalescing ==
    [][/\ sources' <= 1
       /\ timerPending' <=> sources' = 1
       /\ TimeoutFires =>
             /\ sources' = 0
             /\ runs'[Len(runs')].started = signals
             /\ \A i \in 1..Len(runs) : runs[i].started < signals]_vars

\* A timeout fires after three signals, the later two having replaced the
\* pending timeout of the one before; no run was started in between.
C36_Witness ==
    /\ wfx.op = "timeout"
    /\ signals = MaxSignals
    /\ Len(runs) = 1
    /\ runs[1].started = MaxSignals
    /\ lastContent = NullContent
    /\ debouncing = 0
    /\ ~isPaused
    /\ copying = {}

(***************************************************************************)
(* Startup with the clear-data-at-login settings.                          *)
(***************************************************************************)
\* enable() from `await loadAndPrepare()` on (extension.js:578-606).  With
\* clear-data-at-login and clear-clipboard-history-at-login on, it calls
\* clearHistory() of the manager, which the class does not define: the
\* TypeError ends enable() before the garbage collection and the indicator.
Enable(clearHistoryAtLogin) ==
    IF clearHistoryAtLogin
    THEN /\ phase = "loading"
         /\ phase' = "ready"
         /\ LET loaded == LoadDataOf(historyFile, pinnedFile)
            IN  /\ initialLoadSuccess' = loaded.success
                /\ history' = loaded.history
                /\ pinned' = loaded.pinned
         /\ fx' = Effects("loadThenTypeError", 0, NoHash, FALSE, FALSE, TRUE,
                          TRUE, {}, {})
         /\ UNCHANGED <<lastContent, maxHistory, nextId, unpinOnPaste,
                        updateRecency, historyFile, pinnedFile, storeVars,
                        viewVars, recentsVars, watcherVars, ioVars>>
    ELSE LoadAndCollect

StartupNext ==
    \/ \E clearHistoryAtLogin \in BOOLEAN : Enable(clearHistoryAtLogin)
    \/ \E id \in StoredIds, readFails \in BOOLEAN : GetContent(id, readFails)

SpecStartup == StoreInit /\ [][StartupNext]_vars

(***************************************************************************)
(* C37 - On every startup, whatever the outcome of the initial load and    *)
(* the settings, runGarbageCollection is invoked once after loadAndPrepare *)
(* resolved: when enable() is through, the blob directories are those a    *)
(* pass over the loaded lists leaves.                                      *)
(***************************************************************************)
C37_CollectionOnEveryStartup ==
    [][(phase = "loading" /\ phase' = "ready") =>
          LET gc == RunGarbageCollection(history', pinned', imagesDir, textsDir)
          IN  /\ imagesDir' = gc.imagesDir
              /\ textsDir' = gc.textsDir]_vars

(***************************************************************************)
(* C38 - Ingesting a text t that is in neither list creates exactly one    *)
(* item, whose has_full_content is true exactly when t.length > 150; the   *)
(* write of the blob <id>.txt is started exactly in that case, and the     *)
(* preview has at most 150 characters in both cases.                       *)
(***************************************************************************)
\* string.length of the strings an item's preview can be.
StringLength(string) ==
    CASE string \in Texts -> TextLength(string)
      [] string = "long500[0,150)" -> 150
      [] string = "" -> 0

C38_TextOverflow ==
    [][(fx'.op = "addText" /\ fx'.id > 0) =>
          LET t == lastContent'
              created == {i \in 1..Len(history') :
                             history'[i].id \notin IdsOf(AllItems)}
          IN  /\ IdsOf(pinned') = IdsOf(pinned)
              /\ created = {1}
              /\ history'[1].id = fx'.id
              /\ history'[1].type = "text"
              /\ history'[1].has_full_content
                     <=> TextLength(t) > TEXT_PREVIEW_MAX_LENGTH
              /\ fx'.wrote = IF history'[1].has_full_content
                             THEN {<<"texts", fx'.id>>} ELSE {}
              /\ StringLength(history'[1].preview) <= TEXT_PREVIEW_MAX_LENGTH]_vars

\* A text of more than 150 characters has just been ingested.
C38_Witness ==
    /\ fx.op = "addText"
    /\ fx.id > 0
    /\ fx.wrote = {<<"texts", fx.id>>}
    /\ history[1].has_full_content
    /\ lastContent = "long500"

(***************************************************************************)
(* C39 - The RecentItemsManager starts no write of its file before its     *)
(* initial load has completed: a call of addItem made while the load is in *)
(* flight does not overwrite the file.                                     *)
(***************************************************************************)
C39_NoWriteBeforeLoad ==
    [][~isLoaded => ~rfx'.save]_vars

(***************************************************************************)
(* C40 - From the initial load on, the list of recents is no longer than   *)
(* the effective maximum: the configured integer when it is >= 0, 45       *)
(* otherwise.  A change of the setting truncates the list to the new       *)
(* maximum at once, dropping its oldest entries, and starts a write.       *)
(***************************************************************************)
C40_RecentsBound ==
    [][/\ isLoaded' => Len(recents') <= EffectiveMax(maxItems')
       /\ \A max \in RecentsMaxValues :
             (isLoaded /\ RecentsMaxChanged(max)) =>
                /\ Len(recents') =
                      IF Len(recents) > EffectiveMax(max)
                      THEN EffectiveMax(max) ELSE Len(recents)
                /\ IsPrefix(recents', recents)
                /\ rfx'.save]_vars

\* The setting has just been changed to 1 with the manager loaded, and the
\* list holds its most recent entry.
C40_Witness ==
    /\ isLoaded
    /\ rfx.op = "maxChanged"
    /\ maxItems = 1
    /\ Len(recents) = 1

====
